---- MODULE Spec2Model ----
(***************************************************************************)
(* drawio-mcp: the in-memory graph (Graph.ts over mxGraph), its style      *)
(* codec, the edge identity protocol, the table abstraction and the        *)
(* multi-tab document store (GraphFileManager.ts) with the MCP tools that  *)
(* load a page, mutate it and save it back.                                *)
(*                                                                         *)
(* Strings are sequences of symbols.  Identifiers are spelled character by *)
(* character; a word of the fixed style vocabulary ("whiteSpace", "wrap")  *)
(* is one symbol, it holds neither ";" nor "=".  Numbers are rendered as   *)
(* decimal digit symbols.                                                  *)
(***************************************************************************)
EXTENDS Integers, Sequences, FiniteSets, TLC

VARIABLES graph, file, last, clock

vars == <<graph, file, last, clock>>

\* F applied to the value of e: e is evaluated once, whatever F does with it
Bind(e, F(_)) == CHOOSE r \in {F(x) : x \in {e}} : TRUE

-----------------------------------------------------------------------------
(* JavaScript values *)

Undef == [t |-> "undefined"]

Null == [t |-> "null"]

NaN == [t |-> "nan"]

StrV(s) == [t |-> "string", s |-> s]

NumV(n) == [t |-> "number", n |-> n]

BoolV(b) == [t |-> "boolean", b |-> b]

ObjV(m) == [t |-> "object", m |-> m]

\* JavaScript truthiness, as used by `value ? ... : ...` and `if (title)`
Truthy(v) ==
    CASE v.t = "undefined" -> FALSE
      [] v.t = "null" -> FALSE
      [] v.t = "nan" -> FALSE
      [] v.t = "string" -> v.s # <<>>
      [] v.t = "number" -> v.n # 0
      [] v.t = "boolean" -> v.b
      [] OTHER -> TRUE

Digits == <<"0", "1", "2", "3", "4", "5", "6", "7", "8", "9">>

RECURSIVE Dec(_)
\* decimal rendering of a natural number
Dec(n) == IF n < 10 THEN <<Digits[n + 1]>> ELSE Dec(n \div 10) \o <<Digits[(n % 10) + 1]>>

IsDigit(c) == \E d \in 1..10 : Digits[d] = c

DigitVal(c) == (CHOOSE d \in 1..10 : Digits[d] = c) - 1

\* String(v) and `${v}`
ToStr(v) ==
    CASE v.t = "string" -> v.s
      [] v.t = "number" -> IF v.n < 0 THEN <<"-">> \o Dec(-v.n) ELSE Dec(v.n)
      [] v.t = "nan" -> <<"N", "a", "N">>
      [] v.t = "boolean" -> IF v.b THEN <<"t", "r", "u", "e">> ELSE <<"f", "a", "l", "s", "e">>
      [] v.t = "null" -> <<"n", "u", "l", "l">>
      [] v.t = "undefined" -> <<"u", "n", "d", "e", "f", "i", "n", "e", "d">>
      [] OTHER -> <<"[object Object]">>

RECURSIVE DigitPrefix(_)
\* the longest prefix of s made of digits
DigitPrefix(s) ==
    IF s = <<>> \/ ~IsDigit(Head(s)) THEN <<>> ELSE <<Head(s)>> \o DigitPrefix(Tail(s))

RECURSIVE DigitsToNat(_, _)
DigitsToNat(s, acc) ==
    IF s = <<>> THEN acc ELSE DigitsToNat(Tail(s), acc * 10 + DigitVal(Head(s)))

\* parseInt(s, 10): an optional sign, then the digit prefix; NaN when there is none
ParseInt(s) ==
    LET neg  == s # <<>> /\ Head(s) = "-"
        body == IF neg THEN Tail(s) ELSE s
        ds   == DigitPrefix(body)
    IN  IF ds = <<>> THEN NaN
        ELSE NumV(IF neg THEN 0 - DigitsToNat(ds, 0) ELSE DigitsToNat(ds, 0))

-----------------------------------------------------------------------------
(* Strings *)

RECURSIVE Split(_, _)
\* String.prototype.split(sep) for a one-symbol separator
Split(s, sep) ==
    IF \A i \in 1..Len(s) : s[i] # sep THEN <<s>>
    ELSE LET i == CHOOSE j \in 1..Len(s) : s[j] = sep /\ \A k \in 1..(j - 1) : s[k] # sep
         IN  <<SubSeq(s, 1, i - 1)>> \o Split(SubSeq(s, i + 1, Len(s)), sep)

StartsWith(s, p) == Len(p) <= Len(s) /\ SubSeq(s, 1, Len(p)) = p

\* UTF-16 code unit of a symbol of an identifier
Code(c) ==
    CASE c = "-" -> 45
      [] IsDigit(c) -> 48 + DigitVal(c)
      [] c = "_" -> 95
      [] c = "a" -> 97
      [] c = "b" -> 98
      [] c = "c" -> 99
      [] c = "d" -> 100
      [] c = "e" -> 101
      [] c = "h" -> 104
      [] c = "r" -> 114
      [] c = "t" -> 116
      [] c = "u" -> 117
      [] OTHER -> 120

RECURSIVE StrLess(_, _)
\* the default comparison of Array.prototype.sort: by code units
StrLess(a, b) ==
    IF b = <<>> THEN FALSE
    ELSE IF a = <<>> THEN TRUE
    ELSE IF Code(Head(a)) # Code(Head(b)) THEN Code(Head(a)) < Code(Head(b))
    ELSE StrLess(Tail(a), Tail(b))

-----------------------------------------------------------------------------
(* Style codec.  A mapping is a sequence of entries [k, v] with distinct    *)
(* keys, in insertion order.                                                *)

Entry(k, v) == [k |-> k, v |-> v]

HasKey(m, k) == \E i \in 1..Len(m) : m[i].k = k

Get(m, k) == IF HasKey(m, k) THEN m[CHOOSE i \in 1..Len(m) : m[i].k = k].v ELSE Undef

\* obj[k] = v: an existing key keeps its place
Put(m, k, v) ==
    IF HasKey(m, k) THEN [i \in 1..Len(m) |-> IF m[i].k = k THEN Entry(k, v) ELSE m[i]]
    ELSE Append(m, Entry(k, v))

RECURSIVE Merge(_, _)
\* a faulty merge: for a key both have, the old value stays
RECURSIVE MergeKeepingOld(_, _)
MergeKeepingOld(a, b) ==
    IF b = <<>> THEN a
    ELSE MergeKeepingOld(IF HasKey(a, Head(b).k) THEN a ELSE Put(a, Head(b).k, Head(b).v),
                         Tail(b))

\* { ...a, ...b }
Merge(a, b) ==
    IF b = <<>> THEN a
    ELSE Bind(Put(a, Head(b).k, Head(b).v), LAMBDA m : Merge(m, Tail(b)))

\* the mapping as a set of entries: equality of mappings whatever the order
AsSet(m) == {m[i] : i \in 1..Len(m)}

RECURSIVE StringifyBare(_)
\* stringifyStyle with a falsy-defined value dropped like undefined (faulty variant)
StringifyBare(m) ==
    IF m = <<>> THEN <<>>
    ELSE (IF ~Truthy(Head(m).v) THEN <<>>
          ELSE Head(m).k \o <<"=">> \o ToStr(Head(m).v) \o <<";">>)
         \o StringifyBare(Tail(m))

RECURSIVE stringifyStyle(_)
stringifyStyle(m) ==
    IF m = <<>> THEN <<>>
    ELSE (IF Head(m).v = Undef THEN <<>>
          ELSE Head(m).k \o (IF Truthy(Head(m).v) THEN <<"=">> \o ToStr(Head(m).v) ELSE <<>>) \o <<";">>)
         \o stringifyStyle(Tail(m))

\* toStyleString(data): a string passes through
toStyleString(data) == IF data.t = "string" THEN data.s ELSE stringifyStyle(data.m)

RECURSIVE ParseSegments(_, _)
ParseSegments(segs, acc) ==
    IF segs = <<>> THEN acc
    ELSE IF Head(segs) = <<>> THEN ParseSegments(Tail(segs), acc)
    ELSE LET kv == Split(Head(segs), "=")
             v  == IF Len(kv) < 2 THEN <<>> ELSE kv[2]
         IN  Bind(Put(acc, kv[1], StrV(v)), LAMBDA m : ParseSegments(Tail(segs), m))

\* parseStyle(style): a string is split at ";" and "="; a mapping is copied
parseStyle(style) ==
    IF style.t = "string" THEN ParseSegments(Split(style.s, ";"), <<>>) ELSE style.m

-----------------------------------------------------------------------------
(* The mxGraph model under Graph.ts.  A graph is the objects ever made      *)
(* (objs, an object is its index), the model's dictionary `cells` from key  *)
(* to object (dict), and the model's id counter (nextId).  An object keeps  *)
(* its own id: mxCell.setId changes the id and leaves the dictionary key.   *)
(* parent = 0 is an object outside the tree.  Siblings are ordered by       *)
(* index: a child is always appended.                                       *)

None == 0

NoGeom == [x |-> 0, y |-> 0, width |-> 0, height |-> 0]

Geom(x, y, w, h) == [x |-> x, y |-> y, width |-> w, height |-> h]

Cell(id, vertex, value, parent) ==
    [id |-> id, vertex |-> vertex, edge |-> FALSE, value |-> value, style |-> Undef,
     geom |-> NoGeom, parent |-> parent, source |-> None, target |-> None, data |-> Undef]

\* new Graph(): the root "0" and the default layer "1"
NewGraph ==
    [objs |-> <<Cell(<<"0">>, FALSE, Undef, None), Cell(<<"1">>, FALSE, Undef, 1)>>,
     dict |-> (<<"0">> :> 1) @@ (<<"1">> :> 2),
     nextId |-> 2]

NoGraph == [objs |-> <<>>, dict |-> <<>>, nextId |-> 0]

NoFile == [exists |-> FALSE, blocks |-> <<>>]

\* this.root: the default parent, the root's first child
Root == 2

ModelRoot == 1

\* model.getCell(id): the dictionary entry under the key
getCell(g, key) == IF key \in DOMAIN g.dict THEN g.dict[key] ELSE None

Max(a, b) == IF a >= b THEN a ELSE b

\* mxUtils.isNumeric on the identifiers of the model: all digits
IsNumeric(s) == s # <<>> /\ \A i \in 1..Len(s) : IsDigit(s[i])

RECURSIVE FirstFree(_, _)
\* createId until it collides with no key: the first free number from n on
FirstFree(dict, n) == IF Dec(n) \in DOMAIN dict THEN FirstFree(dict, n + 1) ELSE n

\* mxGraphModel.cellAdded: a cell whose id is taken gets a created id
CellAdded(g, cell) ==
    LET collide == cell.id \in DOMAIN g.dict
        n       == IF collide THEN FirstFree(g.dict, g.nextId) ELSE g.nextId
        id      == IF collide THEN Dec(n) ELSE cell.id
        next1   == IF collide THEN n + 1 ELSE g.nextId
        next2   == IF IsNumeric(id) THEN Max(next1, DigitsToNat(id, 0)) ELSE next1
        oid     == Len(g.objs) + 1
    IN  [objs |-> Append(g.objs, [cell EXCEPT !.id = id]),
         dict |-> (id :> oid) @@ g.dict,
         nextId |-> next2]

\* graph.insertVertex(parent, id, value, x, y, width, height): the new object
\* is the last of objs
insertVertex(g, parent, id, value, x, y, w, h) ==
    CellAdded(g, [Cell(id, TRUE, value, parent) EXCEPT !.geom = Geom(x, y, w, h)])

\* graph.insertEdge(parent, id, value, source, target)
insertEdge(g, parent, id, value, source, target) ==
    CellAdded(g, [Cell(id, FALSE, value, parent) EXCEPT
                     !.edge = TRUE, !.source = source, !.target = target])

Newest(g) == Len(g.objs)

InTree(g, o) == o = ModelRoot \/ (o # None /\ g.objs[o].parent # None)

ChildrenOf(g, o) == {c \in 1..Len(g.objs) : g.objs[c].parent = o}

RECURSIVE Descendants(_, _)
\* the object and everything below it
Descendants(g, o) == {o} \cup UNION {Descendants(g, c) : c \in ChildrenOf(g, o)}

\* the edges in the tree that end at one of the objects
EdgesAt(g, S) ==
    {e \in 1..Len(g.objs) : /\ g.objs[e].edge
                            /\ InTree(g, e)
                            /\ (g.objs[e].source \in S \/ g.objs[e].target \in S)}

\* removeCells(cells, false): the cells and their descendants only
removeCellsOnly(g0, cells) ==
    Bind(g0, LAMBDA g :
        LET given == {o \in cells : o # None /\ g.objs[o].parent # None}
        IN  Bind(UNION {Descendants(g, o) : o \in given}, LAMBDA gone :
                [g EXCEPT
                   !.objs = [o \in 1..Len(g.objs) |->
                                IF o \in gone THEN [g.objs[o] EXCEPT !.parent = None]
                                ELSE g.objs[o]],
                   !.dict = [k \in DOMAIN g.dict \ {g.objs[o].id : o \in gone} |-> g.dict[k]]]))

\* graph.removeCells(cells): the cells, the edges at them or at their
\* descendants, and all descendants leave the tree; cellRemoved deletes the
\* dictionary entry under each one's current id
removeCells(g0, cells) ==
    Bind(g0, LAMBDA g :
        LET given == {o \in cells : o # None /\ g.objs[o].parent # None}
            below == UNION {Descendants(g, o) : o \in given}
            tops  == given \cup {e \in EdgesAt(g, below) : g.objs[e].parent # None}
        IN  Bind(UNION {Descendants(g, o) : o \in tops}, LAMBDA gone :
                [g EXCEPT
                   !.objs = [o \in 1..Len(g.objs) |->
                                IF o \in gone THEN [g.objs[o] EXCEPT !.parent = None]
                                ELSE g.objs[o]],
                   !.dict = [k \in DOMAIN g.dict \ {g.objs[o].id : o \in gone} |-> g.dict[k]]]))

setId(g, o, id) == [g EXCEPT !.objs[o].id = id]

setValue(g, o, v) == [g EXCEPT !.objs[o].value = v]

setStyle(g, o, st) == [g EXCEPT !.objs[o].style = st]

setGeometry(g, o, geo) == [g EXCEPT !.objs[o].geom = geo]

setData(g, o, d) == [g EXCEPT !.objs[o].data = d]

Min(S) == CHOOSE x \in S : \A y \in S : x <= y

RECURSIVE PreOrder(_, _)
RECURSIVE PreOrderAll(_, _)
\* the encoder's walk: a cell, then its children in order
PreOrder(g, o) == <<o>> \o PreOrderAll(g, ChildrenOf(g, o))

PreOrderAll(g, S) ==
    IF S = {} THEN <<>> ELSE PreOrder(g, Min(S)) \o PreOrderAll(g, S \ {Min(S)})

IdOf(g, o) == IF o = None THEN <<>> ELSE g.objs[o].id

\* toXML(): the cells of the tree in the encoder's order, each with its id and
\* the ids of its parent and terminals
toXML(g0) ==
    Bind(g0, LAMBDA g :
        Bind(PreOrder(g, ModelRoot), LAMBDA order :
            [i \in 1..Len(order) |->
                LET c == g.objs[order[i]]
                IN  [c EXCEPT !.parent = IdOf(g, c.parent),
                              !.source = IF c.source # None /\ InTree(g, c.source)
                                         THEN IdOf(g, c.source) ELSE <<>>,
                              !.target = IF c.target # None /\ InTree(g, c.target)
                                         THEN IdOf(g, c.target) ELSE <<>>]]))

\* the decoder's lookup of an id: the last cell read before i, else the first after
Lookup(xml, i, id) ==
    IF id = <<>> THEN None
    ELSE IF \E j \in 1..(i - 1) : xml[j].id = id
    THEN CHOOSE j \in 1..(i - 1) : xml[j].id = id /\ \A k \in (j + 1)..(i - 1) : xml[k].id # id
    ELSE IF \E j \in (i + 1)..Len(xml) : xml[j].id = id
    THEN CHOOSE j \in (i + 1)..Len(xml) : xml[j].id = id /\ \A k \in (i + 1)..(j - 1) : xml[k].id # id
    ELSE None

RECURSIVE DecodeFrom(_, _, _)
DecodeFrom(xml, i, g) ==
    IF i > Len(xml) THEN g
    ELSE Bind(CellAdded(g, [xml[i] EXCEPT !.parent = Lookup(xml, i, xml[i].parent),
                                          !.source = Lookup(xml, i, xml[i].source),
                                          !.target = Lookup(xml, i, xml[i].target)]),
              LAMBDA h : DecodeFrom(xml, i + 1, h))

\* Graph.fromXML(xml): the cells are rebuilt and keyed by their ids again
fromXML(xml) ==
    Bind(xml, LAMBDA x : DecodeFrom(x, 1, [objs |-> <<>>, dict |-> <<>>, nextId |-> 0]))

\* Objects that are neither in the tree nor under a dictionary key cannot be
\* reached any more: they are dropped and the rest keeps its order.
Compact(g0) ==
    Bind(g0, LAMBDA g :
        Bind({o \in 1..Len(g.objs) : InTree(g, o) \/ \E k \in DOMAIN g.dict : g.dict[k] = o},
             LAMBDA keep :
                LET Rank(o) == Cardinality({k \in keep : k <= o})
                    Ref(o)  == IF o \in keep THEN Rank(o) ELSE None
                    At(i)   == CHOOSE o \in keep : Rank(o) = i
                IN  [objs |-> [i \in 1..Cardinality(keep) |->
                                  [g.objs[At(i)] EXCEPT !.parent = Ref(g.objs[At(i)].parent),
                                                        !.source = Ref(g.objs[At(i)].source),
                                                        !.target = Ref(g.objs[At(i)].target)]],
                     dict |-> [k \in DOMAIN g.dict |-> Rank(g.dict[k])],
                     nextId |-> g.nextId]))

-----------------------------------------------------------------------------
(* Graph.ts: the kind catalog and the vertex operations.  An operation      *)
(* yields [err, g]: err when it threw, g the graph as the throw left it.    *)

DEFAULT_CORNER_RADIUS == 12

KIND_ROUNDED_RECTANGLE == <<"RoundedRectangle">>

PROP_ARC_SIZE == <<"arcSize">>

PROP_ABSOLUTE_ARC_SIZE == <<"absoluteArcSize">>

\* "k=v;" and the bare "k;"
KV(k, v) == <<k, "=">> \o v \o <<";">>

Bare(k) == <<k, ";">>

KindNames ==
    {<<"Rectangle">>, <<"Ellipse">>, <<"Cylinder">>, <<"Cloud">>, <<"Square">>, <<"Circle">>,
     <<"Step">>, <<"Actor">>, <<"Text">>, <<"RoundedRectangle">>}

KindEntry(style, w, h) == [style |-> style, width |-> w, height |-> h]

\* Graph.Kinds
Kinds(kind) ==
    CASE kind = <<"Rectangle">> ->
            KindEntry(ObjV(<<Entry(<<"rounded">>, NumV(1)), Entry(<<"whiteSpace">>, StrV(<<"wrap">>)),
                             Entry(<<"html">>, NumV(1))>>), 120, 60)
      [] kind = <<"Ellipse">> ->
            KindEntry(ObjV(<<Entry(<<"ellipse">>, StrV(<<>>)), Entry(<<"whiteSpace">>, StrV(<<"wrap">>)),
                             Entry(<<"html">>, NumV(1))>>), 120, 80)
      [] kind = <<"Cylinder">> ->
            KindEntry(StrV(KV("shape", <<"cylinder3">>) \o KV("whiteSpace", <<"wrap">>)
                           \o KV("html", <<"1">>) \o KV("boundedLbl", <<"1">>)
                           \o KV("backgroundOutline", <<"1">>) \o KV("size", <<"1", "5">>)), 60, 80)
      [] kind = <<"Cloud">> ->
            KindEntry(StrV(Bare("ellipse") \o KV("shape", <<"cloud">>) \o KV("whiteSpace", <<"wrap">>)
                           \o KV("html", <<"1">>)), 120, 80)
      [] kind = <<"Square">> ->
            KindEntry(StrV(KV("whiteSpace", <<"wrap">>) \o KV("html", <<"1">>)
                           \o KV("aspect", <<"fixed">>) \o KV("rounded", <<"1">>)), 80, 80)
      [] kind = <<"Circle">> ->
            KindEntry(StrV(Bare("ellipse") \o KV("whiteSpace", <<"wrap">>) \o KV("html", <<"1">>)
                           \o KV("aspect", <<"fixed">>)), 80, 80)
      [] kind = <<"Step">> ->
            KindEntry(StrV(KV("shape", <<"step">>) \o KV("perimeter", <<"stepPerimeter">>)
                           \o KV("whiteSpace", <<"wrap">>) \o KV("html", <<"1">>)
                           \o KV("fixedSize", <<"1">>)), 120, 80)
      [] kind = <<"Actor">> ->
            KindEntry(StrV(KV("shape", <<"umlActor">>) \o KV("verticalLabelPosition", <<"bottom">>)
                           \o KV("verticalAlign", <<"top">>) \o KV("html", <<"1">>)
                           \o KV("outlineConnect", <<"0">>)), 30, 60)
      [] kind = <<"Text">> ->
            KindEntry(StrV(Bare("text") \o KV("html", <<"1">>) \o KV("strokeColor", <<"none">>)
                           \o KV("fillColor", <<"none">>) \o KV("align", <<"center">>)
                           \o KV("verticalAlign", <<"middle">>) \o KV("whiteSpace", <<"wrap">>)
                           \o KV("rounded", <<"0">>)), 60, 30)
      [] kind = <<"RoundedRectangle">> ->
            KindEntry(StrV(KV("whiteSpace", <<"wrap">>) \o KV("html", <<"1">>) \o KV("rounded", <<"1">>)
                           \o KV("absoluteArcSize", <<"1">>)
                           \o <<"arcSize", "=">> \o Dec(DEFAULT_CORNER_RADIUS * 2)), 120, 60)
      [] OTHER -> KindEntry(Undef, 0, 0)

\* Graph.normalizeKind
normalizeKind(kind) == IF kind = StrV(<<"Elipse">>) THEN StrV(<<"Ellipse">>) ELSE kind

KindOf(kind) == IF kind.t = "string" THEN kind.s ELSE <<>>

\* the arc size taken as the radius itself (faulty variant)
ArcSizeRadius(cr) ==
    IF cr.t = "number" /\ cr.n >= 1 THEN cr.n ELSE DEFAULT_CORNER_RADIUS * 2

\* the arc size for a corner radius: twice the radius, the default when it is
\* no integer >= 1
ArcSizeFor(cr) ==
    IF cr.t = "number" /\ cr.n >= 1 THEN cr.n * 2 ELSE DEFAULT_CORNER_RADIUS * 2

\* adjustStyleByKind(style, kind, corner_radius)
adjustStyleByKind(style, kind, corner_radius) ==
    IF kind = StrV(KIND_ROUNDED_RECTANGLE)
    THEN LET styleObj == IF style = Undef THEN <<>> ELSE parseStyle(style)
             cr       == ParseInt(ToStr(corner_radius))
             adjusted == IF corner_radius # Undef
                         THEN Put(Put(styleObj, PROP_ABSOLUTE_ARC_SIZE, StrV(<<"1">>)),
                                  PROP_ARC_SIZE, StrV(Dec(ArcSizeFor(cr))))
                         ELSE styleObj
         IN  StrV(stringifyStyle(adjusted))
    ELSE style

ROOT == <<"r", "o", "o", "t">>

\* JSON.stringify of a data object: entries with an undefined value are left out
RECURSIVE JsonEntries(_)
JsonEntries(m) ==
    IF m = <<>> THEN <<>>
    ELSE (IF Head(m).v = Undef THEN <<>> ELSE <<Head(m)>>) \o JsonEntries(Tail(m))

JsonStringify(data) == [t |-> "json", m |-> JsonEntries(data.m)]

\* JSON.parse(node.data)
JsonParse(text) == ObjV(text.m)

\* the parameter object of addNode / editNode; an absent field is undefined
NodeArgs ==
    [id |-> <<>>, title |-> Undef, parent |-> Undef, kind |-> Undef, x |-> Undef, y |-> Undef,
     corner_radius |-> Undef, data |-> Undef, width |-> Undef, height |-> Undef, style |-> Undef]

Or(v, d) == IF v = Undef THEN d ELSE v

Thrown(g) == [err |-> TRUE, g |-> g]

Done(g) == [err |-> FALSE, g |-> g]

\* validateParent(parent): None when it throws
\* a faulty validateParent: a parent that does not exist stands for the root
ParentOrRoot(g, parent) ==
    IF parent = StrV(ROOT) \/ getCell(g, parent.s) = None THEN Root ELSE getCell(g, parent.s)

validateParent(g, parent) == IF parent = StrV(ROOT) THEN Root ELSE getCell(g, parent.s)

\* addNode({ id, title, parent = 'root', kind = 'Rectangle', x = 10, y = 10,
\*           corner_radius, data, ...rest })
addNode(g, a) ==
    LET parent == Or(a.parent, StrV(ROOT))
        nk     == normalizeKind(Or(a.kind, StrV(<<"Rectangle">>)))
        k      == Kinds(KindOf(nk))
        style  == Or(a.style, k.style)
        width  == IF a.width = Undef THEN k.width ELSE a.width.n
        height == IF a.height = Undef THEN k.height ELSE a.height.n
        to     == validateParent(g, parent)
        g1     == insertVertex(g, to, a.id, a.title, Or(a.x, NumV(10)).n, Or(a.y, NumV(10)).n,
                               width, height)
        g2     == setStyle(g1, Newest(g1), adjustStyleByKind(style, nk, a.corner_radius))
        g3     == IF Truthy(a.data) /\ a.data.t = "object"
                  THEN setData(g2, Newest(g2), JsonStringify(a.data)) ELSE g2
    IN  IF to = None THEN Thrown(g) ELSE Done(g3)

\* editNode({ id, title, kind, x, y, width, height, corner_radius, data })
editNode(g, a) ==
    LET node == getCell(g, a.id)
        nk   == normalizeKind(a.kind)
        g1   == IF Truthy(a.title) THEN setValue(g, node, a.title) ELSE g
        g2   == IF Truthy(a.kind) THEN setStyle(g1, node, Kinds(KindOf(nk)).style) ELSE g1
        cur  == IF Truthy(g2.objs[node].style) THEN StrV(ToStr(g2.objs[node].style)) ELSE StrV(<<>>)
        g3   == IF nk = StrV(KIND_ROUNDED_RECTANGLE) /\ a.corner_radius # Undef
                THEN setStyle(g2, node, adjustStyleByKind(cur, nk, a.corner_radius)) ELSE g2
        old  == g3.objs[node].geom
        pick(v, d) == IF v = Undef \/ v = Null THEN d ELSE v.n
        g4   == IF a.x # Undef \/ a.y # Undef \/ a.width # Undef \/ a.height # Undef
                THEN setGeometry(g3, node, Geom(pick(a.x, old.x), pick(a.y, old.y),
                                                pick(a.width, old.width), pick(a.height, old.height)))
                ELSE g3
        have == IF Truthy(g4.objs[node].data) THEN JsonParse(g4.objs[node].data).m ELSE <<>>
        g5   == IF a.data = Undef THEN g4
                ELSE IF a.data = Null THEN setData(g4, node, Undef)
                ELSE IF a.data.t = "object"
                THEN setData(g4, node, JsonStringify(ObjV(Merge(have, a.data.m))))
                ELSE g4
    IN  IF node = None THEN Thrown(g)
        ELSE IF Truthy(a.kind) /\ KindOf(nk) \notin KindNames THEN Thrown(g1)
        ELSE Done(g5)

\* removeNodes(ids)
removeNodes(g, ids) == Done(removeCells(g, {getCell(g, ids[i]) : i \in 1..Len(ids)}))

-----------------------------------------------------------------------------
(* Graph.ts: the edge identity protocol.                                    *)

LinkSep == <<"-", "2", "-">>

idDirect(from, to) == from \o LinkSep \o to

idReverse(from, to) == to \o LinkSep \o from

\* const [a, b] = [from, to].sort(); `${a}-2-${b}`
idCanonical(from, to) ==
    IF StrLess(to, from) THEN to \o LinkSep \o from ELSE from \o LinkSep \o to

\* computeEffectiveLineStyle(style, undirected)
computeEffectiveLineStyle(style, undirected) ==
    LET base == <<Entry(<<"edgeStyle">>, StrV(<<"none">>)), Entry(<<"noEdgeStyle">>, NumV(1)),
                  Entry(<<"orthogonal">>, NumV(1)), Entry(<<"html">>, NumV(1))>>
        effective == Merge(base, style)
    IN  IF Truthy(undirected)
        THEN Put(Put(Put(effective, <<"reverse">>, Undef), <<"startArrow">>, StrV(<<"none">>)),
                 <<"endArrow">>, StrV(<<"none">>))
        ELSE effective

\* the lookup under the direct ID only (faulty variant)
FindDirectOnly(g, from, to) == getCell(g, idDirect(from, to))

\* getCell(idDirect) || getCell(idReverse) || getCell(idCanonical)
FindExisting(g, from, to) ==
    IF getCell(g, idDirect(from, to)) # None THEN getCell(g, idDirect(from, to))
    ELSE IF getCell(g, idReverse(from, to)) # None THEN getCell(g, idReverse(from, to))
    ELSE getCell(g, idCanonical(from, to))

\* const idToUse = undirected ? idCanonical : idDirect
NewEdgeId(from, to, undirected) ==
    IF Truthy(undirected) THEN idCanonical(from, to) ELSE idDirect(from, to)

LinkArgs == [from |-> <<>>, to |-> <<>>, title |-> Undef, style |-> <<>>, undirected |-> Undef]

\* linkNodes({ from, to, title, style = {}, undirected }): [g, id] with id the
\* ID it returns
\* a faulty linkNodes: the label of an edge it finds is set even when the
\* call gives none
LinkAlwaysLabel(g, a) ==
    LET fromNode  == getCell(g, a.from)
        toNode    == getCell(g, a.to)
        effective == computeEffectiveLineStyle(a.style, a.undirected)
        existing  == FindExisting(g, a.from, a.to)
        g1        == IF existing # None
                     THEN setValue(g, existing, IF Truthy(a.title) THEN a.title ELSE Null)
                     ELSE insertEdge(g, Root, NewEdgeId(a.from, a.to, a.undirected),
                                     IF Truthy(a.title) THEN a.title ELSE Null, fromNode, toNode)
        link      == IF existing # None THEN existing ELSE Newest(g1)
        g2        == setStyle(g1, link, StrV(toStyleString(ObjV(effective))))
    IN  [err |-> FALSE, g |-> g2, id |-> g2.objs[link].id]

linkNodes(g, a) ==
    LET fromNode  == getCell(g, a.from)
        toNode    == getCell(g, a.to)
        effective == computeEffectiveLineStyle(a.style, a.undirected)
        existing  == FindExisting(g, a.from, a.to)
        g1        == IF existing # None
                     THEN (IF a.title # Undef THEN setValue(g, existing, a.title) ELSE g)
                     ELSE insertEdge(g, Root, NewEdgeId(a.from, a.to, a.undirected),
                                     IF Truthy(a.title) THEN a.title ELSE Null, fromNode, toNode)
        link      == IF existing # None THEN existing ELSE Newest(g1)
        g2        == setStyle(g1, link, StrV(toStyleString(ObjV(effective))))
    IN  [err |-> FALSE, g |-> g2, id |-> g2.objs[link].id]

-----------------------------------------------------------------------------
(* Graph.ts: tables.  A table is a container vertex whose data holds the    *)
(* descriptor {table: {type, columns, cellWidth, cellHeight}}, with header  *)
(* cells {id}_header_c{col} and data cells {id}_r{row}_c{col} as children.  *)

ArrV(a) == [t |-> "array", a |-> a]

\* v || ''
OrEmpty(v) == IF Truthy(v) THEN v ELSE StrV(<<>>)

\* `${id}_header_c${col}`
HeaderId(id, col) == id \o <<"_", "h", "e", "a", "d", "e", "r", "_", "c">> \o ToStr(NumV(col))

\* `${id}_r${row}_c${col}`
DataId(id, row, col) ==
    id \o <<"_", "r">> \o ToStr(NumV(row)) \o <<"_", "c">> \o ToStr(NumV(col))

\* where /_r(\d+)_c(\d+)$/ matches: the start of the match and of its "_c"
MatchRC(s) ==
    {m \in (1..Len(s)) \X (1..Len(s)) :
        /\ m[1] + 2 < m[2] /\ m[2] + 1 < Len(s)
        /\ SubSeq(s, m[1], m[1] + 1) = <<"_", "r">>
        /\ IsNumeric(SubSeq(s, m[1] + 2, m[2] - 1))
        /\ SubSeq(s, m[2], m[2] + 1) = <<"_", "c">>
        /\ IsNumeric(SubSeq(s, m[2] + 2, Len(s)))}

\* parseInt(match[1], 10)
RowIdx(s) == LET m == CHOOSE m \in MatchRC(s) : TRUE
             IN  DigitsToNat(SubSeq(s, m[1] + 2, m[2] - 1), 0)

\* parseInt(match[2], 10)
ColIdx(s) == LET m == CHOOSE m \in MatchRC(s) : TRUE
             IN  DigitsToNat(SubSeq(s, m[2] + 2, Len(s)), 0)

\* array.indexOf(v): the first index (from 0), -1 when absent
IndexOf(a, v) ==
    IF \E i \in 1..Len(a) : a[i] = v THEN Min({i \in 1..Len(a) : a[i] = v}) - 1 ELSE 0 - 1

\* array.splice(at, 0, v) on a copy, 0 <= at <= length
SpliceIn(a, at, v) == SubSeq(a, 1, at) \o <<v>> \o SubSeq(a, at + 1, Len(a))

\* array.splice(at, 1): nothing goes when at is past the end, a negative at
\* counts from the end
SpliceOut(a, at) ==
    LET start == IF at < 0 THEN Max(Len(a) + at, 0) ELSE at
    IN  IF start >= Len(a) THEN a ELSE SubSeq(a, 1, start) \o SubSeq(a, start + 2, Len(a))

\* containerCell.data ? JSON.parse(containerCell.data) : {}
CellData(g, o) == IF Truthy(g.objs[o].data) THEN JsonParse(g.objs[o].data).m ELSE <<>>

NoTable == [err |-> TRUE]

\* getTableInfo(id): the rows are rebuilt from the dictionary keys that start
\* with `${id}_r` and end in _r<row>_c<col>
getTableInfo(g0, id) ==
    Bind(g0, LAMBDA g :
        LET c       == getCell(g, id)
            meta    == Get(CellData(g, c), <<"table">>)
            columns == Get(meta.m, <<"columns">>).a
            Rows(keys) ==
                IF keys = {} THEN <<>>
                ELSE LET maxRow == CHOOSE r \in {RowIdx(k) : k \in keys} :
                                      \A k \in keys : RowIdx(k) <= r
                         At(r, cc) == {k \in keys : RowIdx(k) = r /\ ColIdx(k) = cc}
                     IN  [r \in 1..(maxRow + 1) |->
                            [cc \in 1..Len(columns) |->
                                IF At(r - 1, cc - 1) = {} THEN StrV(<<>>)
                                ELSE OrEmpty(g.objs[Min({g.dict[k] : k \in At(r - 1, cc - 1)})].value)]]
        IN  IF c = None THEN NoTable
            ELSE IF ~g.objs[c].vertex THEN NoTable
            ELSE IF meta.t # "object" THEN NoTable
            ELSE IF Get(meta.m, <<"type">>) # StrV(<<"table">>) THEN NoTable
            ELSE [err |-> FALSE, id |-> id, x |-> g.objs[c].geom.x, y |-> g.objs[c].geom.y,
                  width |-> g.objs[c].geom.width, height |-> g.objs[c].geom.height,
                  columns |-> columns,
                  rows |-> Bind({k \in DOMAIN g.dict : /\ StartsWith(k, id \o <<"_", "r">>)
                                                       /\ g.objs[g.dict[k]].vertex
                                                       /\ MatchRC(k) # {}},
                                LAMBDA keys : Rows(keys)),
                  cellWidth |-> Get(meta.m, <<"cellWidth">>).n,
                  cellHeight |-> Get(meta.m, <<"cellHeight">>).n])

\* the parameter object of an addNode call that makes a table cell
TableCell(id, title, parent, x, y, w, h) ==
    [NodeArgs EXCEPT !.id = id, !.title = title, !.kind = StrV(<<"Rectangle">>),
                     !.parent = StrV(parent), !.x = NumV(x), !.y = NumV(y),
                     !.width = NumV(w), !.height = NumV(h)]

RECURSIVE AddNodes(_, _)
\* addNode call after addNode call, until one throws
AddNodes(r, as) ==
    IF as = <<>> THEN r
    ELSE Bind(r, LAMBDA v : IF v.err THEN v
                            ELSE Bind(Tail(as), LAMBDA rest : AddNodes(addNode(v.g, Head(as)), rest)))

TableArgs ==
    [id |-> <<>>, x |-> 0, y |-> 0, headers |-> <<>>, rows |-> <<>>,
     cellWidth |-> 120, cellHeight |-> 30, data |-> <<>>]

\* rows[row][col], undefined past the end of the row
CellAt(row, col) == IF col <= Len(row) THEN row[col] ELSE Undef

\* addTable({ id, x, y, headers, rows = [], cellWidth = 120, cellHeight = 30, data = {} })
addTable(g, a) ==
    LET n  == Len(a.headers)
        cw == a.cellWidth
        ch == a.cellHeight
        tableMetadata ==
            Put(a.data, <<"table">>,
                ObjV(<<Entry(<<"type">>, StrV(<<"table">>)), Entry(<<"columns">>, ArrV(a.headers)),
                       Entry(<<"cellWidth">>, NumV(cw)), Entry(<<"cellHeight">>, NumV(ch))>>))
        container ==
            [NodeArgs EXCEPT !.id = a.id, !.title = StrV(<<>>), !.kind = StrV(<<"Rectangle">>),
                             !.x = NumV(a.x), !.y = NumV(a.y), !.width = NumV(n * cw),
                             !.height = NumV((Len(a.rows) + 1) * ch),
                             !.data = ObjV(tableMetadata)]
        headerCells ==
            [col \in 1..n |->
                TableCell(HeaderId(a.id, col - 1), a.headers[col], a.id, (col - 1) * cw, 0, cw, ch)]
        dataCells ==
            [i \in 1..(Len(a.rows) * n) |->
                LET row == (i - 1) \div n
                    col == (i - 1) % n
                IN  TableCell(DataId(a.id, row, col), OrEmpty(CellAt(a.rows[row + 1], col + 1)),
                              a.id, col * cw, (row + 1) * ch, cw, ch)]
    IN  IF n = 0 THEN Thrown(g)
        ELSE Bind(AddNodes(Done(g), <<container>> \o headerCells \o dataCells), LAMBDA r :
                IF r.err THEN r
                ELSE IF getTableInfo(r.g, a.id).err THEN Thrown(r.g)
                ELSE r)

\* one step of a shift loop: the cell under the key, when there is one, gets
\* a new id (rename) and a new x or y
ShiftStep(key, rename, id, axis, at) ==
    [key |-> key, rename |-> rename, id |-> id, axis |-> axis, at |-> at]

ApplyShift(g0, s) ==
    Bind(g0, LAMBDA g :
        LET o  == getCell(g, s.key)
            g1 == IF s.rename THEN setId(g, o, s.id) ELSE g
            ge == g1.objs[o].geom
        IN  IF o = None THEN g
            ELSE setGeometry(g1, o, IF s.axis = "x" THEN [ge EXCEPT !.x = s.at]
                                                    ELSE [ge EXCEPT !.y = s.at]))

RECURSIVE ShiftAll(_, _)
ShiftAll(g, steps) ==
    IF steps = <<>> THEN g
    ELSE Bind(ApplyShift(g, Head(steps)),
              LAMBDA h : Bind(Tail(steps), LAMBDA rest : ShiftAll(h, rest)))

RECURSIVE Flatten(_)
Flatten(ss) == IF ss = <<>> THEN <<>> ELSE Head(ss) \o Flatten(Tail(ss))

\* cellData.table.columns = columns; containerCell.data = JSON.stringify(cellData)
SetColumns(g0, c, columns) ==
    Bind(g0, LAMBDA g :
        LET cellData == CellData(g, c)
            table    == Get(cellData, <<"table">>)
        IN  setData(g, c, JsonStringify(ObjV(Put(cellData, <<"table">>,
                                                 ObjV(Put(table.m, <<"columns">>, ArrV(columns))))))))

SetWidth(g0, c, w) == Bind(g0, LAMBDA g : setGeometry(g, c, [g.objs[c].geom EXCEPT !.width = w]))

SetHeight(g0, c, h) == Bind(g0, LAMBDA g : setGeometry(g, c, [g.objs[c].geom EXCEPT !.height = h]))

ColumnArgs == [tableId |-> <<>>, header |-> Undef, position |-> NumV(0 - 1), defaultValue |-> StrV(<<>>)]

\* addTableColumn({ tableId, header, position = -1, defaultValue = '' })
addTableColumn(g, a) ==
    Bind(getTableInfo(g, a.tableId), LAMBDA info :
        LET n         == Len(info.columns)
            R         == Len(info.rows)
            cw        == info.cellWidth
            ch        == info.cellHeight
            insertPos == IF a.position.n = 0 - 1 THEN n ELSE a.position.n
            c         == getCell(g, a.tableId)
            new       == <<TableCell(HeaderId(a.tableId, insertPos), a.header, a.tableId,
                                     insertPos * cw, 0, cw, ch)>>
                         \o [row \in 1..R |->
                                TableCell(DataId(a.tableId, row - 1, insertPos), a.defaultValue,
                                          a.tableId, insertPos * cw, row * ch, cw, ch)]
            shifts    == Flatten([i \in 1..(n - insertPos) |->
                            LET col == insertPos + i
                            IN  <<ShiftStep(HeaderId(a.tableId, col - 1), FALSE, <<>>, "x", col * cw)>>
                                \o [row \in 1..R |->
                                       ShiftStep(DataId(a.tableId, row - 1, col - 1), FALSE, <<>>,
                                                 "x", col * cw)]])
        IN  IF info.err THEN Thrown(g)
            ELSE IF insertPos < 0 \/ insertPos > n THEN Thrown(g)
            ELSE Bind(AddNodes(Done(SetColumns(g, c, SpliceIn(info.columns, insertPos, a.header))),
                               new),
                      LAMBDA r : IF r.err THEN r
                                 ELSE Done(SetWidth(ShiftAll(r.g, shifts), c, (n + 1) * cw))))

\* renameTableColumn({ tableId, oldHeader, newHeader })
renameTableColumn(g, a) ==
    Bind(getTableInfo(g, a.tableId), LAMBDA info :
        LET colIndex == IndexOf(info.columns, a.oldHeader)
            c        == getCell(g, a.tableId)
            h        == getCell(g, HeaderId(a.tableId, colIndex))
        IN  IF info.err THEN Thrown(g)
            ELSE IF colIndex = 0 - 1 THEN Thrown(g)
            ELSE Bind(SetColumns(g, c, [info.columns EXCEPT ![colIndex + 1] = a.newHeader]),
                      LAMBDA g1 : Done(IF h # None THEN setValue(g1, h, a.newHeader) ELSE g1)))

\* column given as a header text or as an index: -1 when the text is no column
ResolveColumn(columns, column) ==
    IF column.t = "string" THEN IndexOf(columns, column) ELSE column.n

\* updateTableCell({ tableId, row, column, value })
updateTableCell(g, a) ==
    Bind(getTableInfo(g, a.tableId), LAMBDA info :
        LET colIndex == ResolveColumn(info.columns, a.column)
        IN  IF info.err THEN Thrown(g)
            ELSE IF a.column.t = "string" /\ colIndex = 0 - 1 THEN Thrown(g)
            ELSE IF a.row < 0 \/ a.row >= Len(info.rows) THEN Thrown(g)
            ELSE editNode(g, [NodeArgs EXCEPT !.id = DataId(a.tableId, a.row, colIndex),
                                              !.title = a.value]))

\* addTableRow({ tableId, values, position = -1 })
addTableRow(g, a) ==
    Bind(getTableInfo(g, a.tableId), LAMBDA info :
        LET n         == Len(info.columns)
            R         == Len(info.rows)
            cw        == info.cellWidth
            ch        == info.cellHeight
            insertPos == IF a.position.n = 0 - 1 THEN R ELSE a.position.n
            shifts    == Flatten([i \in 1..(R - insertPos) |->
                            LET row == R - i
                            IN  [col \in 1..n |->
                                    ShiftStep(DataId(a.tableId, row, col - 1), TRUE,
                                              DataId(a.tableId, row + 1, col - 1), "y",
                                              (row + 2) * ch)]])
            new       == [col \in 1..n |->
                             TableCell(DataId(a.tableId, insertPos, col - 1), OrEmpty(a.values[col]),
                                       a.tableId, (col - 1) * cw, (insertPos + 1) * ch, cw, ch)]
        IN  IF info.err THEN Thrown(g)
            ELSE IF Len(a.values) # n THEN Thrown(g)
            ELSE IF insertPos < 0 \/ insertPos > R THEN Thrown(g)
            ELSE Bind(AddNodes(Done(ShiftAll(g, shifts)), new),
                      LAMBDA r : IF r.err THEN r
                                 ELSE Done(SetHeight(r.g, getCell(r.g, a.tableId), (R + 2) * ch))))

\* removeTableColumn({ tableId, column })
removeTableColumn(g, a) ==
    Bind(getTableInfo(g, a.tableId), LAMBDA info :
        LET n        == Len(info.columns)
            R        == Len(info.rows)
            cw       == info.cellWidth
            colIndex == ResolveColumn(info.columns, a.column)
            shifts   == Flatten([i \in 1..(n - 1 - colIndex) |->
                           LET col == colIndex + i
                           IN  <<ShiftStep(HeaderId(a.tableId, col), TRUE,
                                           HeaderId(a.tableId, col - 1), "x", (col - 1) * cw)>>
                               \o [row \in 1..R |->
                                      ShiftStep(DataId(a.tableId, row - 1, col), TRUE,
                                                DataId(a.tableId, row - 1, col - 1), "x",
                                                (col - 1) * cw)]])
        IN  IF info.err THEN Thrown(g)
            ELSE IF a.column.t = "string" /\ colIndex = 0 - 1 THEN Thrown(g)
            ELSE IF n = 1 THEN Thrown(g)
            ELSE Bind(removeNodes(g, <<HeaderId(a.tableId, colIndex)>>).g, LAMBDA g1 :
                 Bind(removeNodes(g1, [row \in 1..R |-> DataId(a.tableId, row - 1, colIndex)]).g,
                      LAMBDA g2 :
                 Bind(ShiftAll(g2, shifts), LAMBDA g3 :
                    Done(SetWidth(SetColumns(g3, getCell(g3, a.tableId),
                                             SpliceOut(info.columns, colIndex)),
                                  getCell(g3, a.tableId), (n - 1) * cw))))))

\* removeTableRow({ tableId, row })
removeTableRow(g, a) ==
    Bind(getTableInfo(g, a.tableId), LAMBDA info :
        LET n      == Len(info.columns)
            R      == Len(info.rows)
            ch     == info.cellHeight
            shifts == Flatten([i \in 1..(R - 1 - a.row) |->
                         LET r == a.row + i
                         IN  [col \in 1..n |->
                                 ShiftStep(DataId(a.tableId, r, col - 1), TRUE,
                                           DataId(a.tableId, r - 1, col - 1), "y", r * ch)]])
        IN  IF info.err THEN Thrown(g)
            ELSE IF a.row < 0 \/ a.row >= R THEN Thrown(g)
            ELSE Bind(removeNodes(g, [col \in 1..n |-> DataId(a.tableId, a.row, col - 1)]).g,
                      LAMBDA g1 :
                 Bind(ShiftAll(g1, shifts), LAMBDA g2 :
                    Done(SetHeight(g2, getCell(g2, a.tableId), R * ch)))))

-----------------------------------------------------------------------------
(* GraphFileManager.ts: the document store.  A document file is its         *)
(* <diagram> blocks in order; a block has the text of its id attribute, the *)
(* escaped text of its name attribute and its <mxGraphModel> fragment       *)
(* (has = FALSE when the block holds none).                                 *)

RECURSIVE ReplaceAll(_, _, _)
\* str.replace(/pat/g, rep)
ReplaceAll(s0, pat, rep) ==
    Bind(s0, LAMBDA s :
        IF s = <<>> THEN <<>>
        ELSE IF StartsWith(s, pat) THEN rep \o ReplaceAll(SubSeq(s, Len(pat) + 1, Len(s)), pat, rep)
        ELSE <<Head(s)>> \o ReplaceAll(Tail(s), pat, rep))

\* escapeXml(str)
escapeXml(str) ==
    ReplaceAll(ReplaceAll(ReplaceAll(ReplaceAll(ReplaceAll(str,
        <<"&">>, <<"&", "a", "m", "p", ";">>),
        <<"<">>, <<"&", "l", "t", ";">>),
        <<">">>, <<"&", "g", "t", ";">>),
        <<"\"">>, <<"&", "q", "u", "o", "t", ";">>),
        <<"'">>, <<"&", "a", "p", "o", "s", ";">>)

\* unescapeXml(str)
unescapeXml(str) ==
    ReplaceAll(ReplaceAll(ReplaceAll(ReplaceAll(ReplaceAll(str,
        <<"&", "l", "t", ";">>, <<"<">>),
        <<"&", "g", "t", ";">>, <<">">>),
        <<"&", "q", "u", "o", "t", ";">>, <<"\"">>),
        <<"&", "a", "p", "o", "s", ";">>, <<"'">>),
        <<"&", "a", "m", "p", ";">>, <<"&">>)

Block(id, name, xml) == [id |-> id, name |-> name, has |-> TRUE, xml |-> xml]

Diagram(id, name, xml) == [id |-> id, name |-> name, mxGraphModelXML |-> xml]

RECURSIVE ParseBlocks(_)
ParseBlocks(blocks) ==
    IF blocks = <<>> THEN <<>>
    ELSE (IF Head(blocks).has
          THEN <<Diagram(Head(blocks).id, unescapeXml(Head(blocks).name), Head(blocks).xml)>>
          ELSE <<>>) \o ParseBlocks(Tail(blocks))

\* parseDiagrams(drawioXML): the blocks in which a model fragment is found
parseDiagrams(f) == ParseBlocks(f.blocks)

\* diagrams.findIndex(d => d.name === name), from 0; -1 when there is none
FindIndex(diagrams, name) ==
    IF \E i \in 1..Len(diagrams) : diagrams[i].name = name
    THEN Min({i \in 1..Len(diagrams) : diagrams[i].name = name}) - 1
    ELSE 0 - 1

\* loadGraph(filePath, tab): err when it throws
\* a faulty loadGraph: an index beyond the end selects the last page
LoadClamped(f, tab) ==
    Bind(parseDiagrams(f), LAMBDA diagrams :
        LET at == IF tab = Undef THEN 0
                  ELSE IF tab.t = "number" THEN Min({tab.n, Len(diagrams) - 1})
                  ELSE FindIndex(diagrams, tab.s)
        IN  IF ~f.exists THEN Thrown(NoGraph)
            ELSE IF diagrams = <<>> THEN Thrown(NoGraph)
            ELSE IF at < 0 \/ at >= Len(diagrams) THEN Thrown(NoGraph)
            ELSE Done(fromXML(diagrams[at + 1].mxGraphModelXML)))

loadGraph(f, tab) ==
    Bind(parseDiagrams(f), LAMBDA diagrams :
        LET at == IF tab = Undef THEN 0
                  ELSE IF tab.t = "number" THEN tab.n
                  ELSE FindIndex(diagrams, tab.s)
        IN  IF ~f.exists THEN Thrown(NoGraph)
            ELSE IF diagrams = <<>> THEN Thrown(NoGraph)
            ELSE IF at < 0 \/ at >= Len(diagrams) THEN Thrown(NoGraph)
            ELSE Done(fromXML(diagrams[at + 1].mxGraphModelXML)))

\* what loadGraph throws: nothing, or the error with what its message holds
NoError == [kind |-> "none"]

LoadError(f, tab) ==
    Bind(parseDiagrams(f), LAMBDA diagrams :
        IF ~f.exists THEN [kind |-> "access"]
        ELSE IF Len(diagrams) = 0 THEN [kind |-> "no diagrams"]
        ELSE IF tab = Undef THEN NoError
        ELSE IF tab.t = "number"
             THEN IF tab.n < 0 \/ tab.n >= Len(diagrams)
                  THEN [kind |-> "out of range", index |-> tab.n, last |-> Len(diagrams) - 1]
                  ELSE NoError
        ELSE IF FindIndex(diagrams, tab.s) < 0
             THEN [kind |-> "not found", tab |-> tab.s,
                   names |-> [i \in 1..Len(diagrams) |-> diagrams[i].name]]
        ELSE NoError)

PAGE_1 == <<"P", "a", "g", "e", "-", "1">>

\* 'diagram-' + Date.now()
DiagramId(now) == <<"d", "i", "a", "g", "r", "a", "m", "-">> \o Dec(now)

\* a save that always overwrites the first page (faulty variant)
SaveOverFirst(f, g, tab, now) ==
    Bind(parseDiagrams(f), LAMBDA diagrams :
        [exists |-> TRUE,
         blocks |-> IF diagrams = <<>>
                    THEN <<Block(DiagramId(now), PAGE_1, toXML(g))>>
                    ELSE [i \in 1..Len(diagrams) |->
                            Block(diagrams[i].id, escapeXml(diagrams[i].name),
                                  IF i = 1 THEN toXML(g) ELSE diagrams[i].mxGraphModelXML)]])

\* saveGraph(graph, filePath, tab) at time now: the new content of the file
\* a faulty saveGraph: looks the page up under the escaped name
SaveEscapedLookup(f, g, tab, now) ==
    Bind(toXML(g), LAMBDA xml :
    Bind(parseDiagrams(f), LAMBDA diagrams :
        LET target  == IF Truthy(tab) THEN tab.s
                       ELSE IF Len(diagrams) > 0 THEN diagrams[1].name ELSE PAGE_1
            at      == FindIndex(diagrams, escapeXml(target))
            updated == IF at >= 0 THEN [diagrams EXCEPT ![at + 1].mxGraphModelXML = xml]
                       ELSE Append(diagrams, Diagram(DiagramId(now), target, xml))
        IN  IF f.exists /\ f.blocks # <<>>
            THEN [exists |-> TRUE,
                  blocks |-> [i \in 1..Len(updated) |->
                                Block(updated[i].id, escapeXml(updated[i].name),
                                      updated[i].mxGraphModelXML)]]
            ELSE [exists |-> TRUE,
                  blocks |-> <<Block(DiagramId(now),
                                     escapeXml(IF Truthy(tab) THEN tab.s ELSE PAGE_1), xml)>>]))

saveGraph(f, g, tab, now) ==
    Bind(toXML(g), LAMBDA xml :
    Bind(parseDiagrams(f), LAMBDA diagrams :
        LET target  == IF Truthy(tab) THEN tab.s
                       ELSE IF Len(diagrams) > 0 THEN diagrams[1].name ELSE PAGE_1
            at      == FindIndex(diagrams, target)
            updated == IF at >= 0 THEN [diagrams EXCEPT ![at + 1].mxGraphModelXML = xml]
                       ELSE Append(diagrams, Diagram(DiagramId(now), target, xml))
        IN  IF f.exists /\ f.blocks # <<>>
            THEN [exists |-> TRUE,
                  blocks |-> [i \in 1..Len(updated) |->
                                Block(updated[i].id, escapeXml(updated[i].name),
                                      updated[i].mxGraphModelXML)]]
            ELSE [exists |-> TRUE,
                  blocks |-> <<Block(DiagramId(now),
                                     escapeXml(IF Truthy(tab) THEN tab.s ELSE PAGE_1), xml)>>]))

-----------------------------------------------------------------------------
(* The tools: each call loads one page of the document, applies its batch   *)
(* to the graph in memory, and saves.                                       *)

\* typeof tab === 'string' ? tab : undefined
SaveTab(tab) == IF tab.t = "string" THEN tab ELSE Undef

RECURSIVE ForEach(_, _, _)
\* for (const item of items) Op(item): stops at the first item that throws
ForEach(Op(_, _), r0, items) ==
    Bind(r0, LAMBDA r :
        IF r.err \/ items = <<>> THEN [err |-> r.err, g |-> r.g]
        ELSE ForEach(Op, Op(r.g, Head(items)), Tail(items)))

\* the end of a call that writes what it has in memory when an item has
\* thrown (faulty variant)
FinishSavingPartial(f, tab, r, now) ==
    [err |-> r.err, file |-> saveGraph(f, r.g, SaveTab(tab), now), g |-> r.g]

\* the end of a call, r the outcome of its batch: a throw leaves the file
\* alone, otherwise saveGraph(graph, file_path, typeof tab === 'string' ? tab :
\* undefined)
Finish(f, tab, r, now) ==
    IF r.err THEN [err |-> TRUE, file |-> f, g |-> r.g]
    ELSE [err |-> FALSE, file |-> saveGraph(f, r.g, SaveTab(tab), now), g |-> r.g]

\* execute({ file_path, tab, ... }): loadGraph, the batch, saveGraph
Execute(f, tab, Run(_), now) ==
    Bind(loadGraph(f, tab), LAMBDA l :
        IF l.err THEN [err |-> TRUE, file |-> f, g |-> NoGraph]
        ELSE Bind(Run(l.g), LAMBDA r : Finish(f, tab, r, now)))

\* AddNodeTool.execute
AddNodeTool(f, tab, nodes, now) ==
    Execute(f, tab, LAMBDA g : ForEach(addNode, Done(g), nodes), now)

\* EditNodeTool.execute
EditNodeTool(f, tab, nodes, now) ==
    Execute(f, tab, LAMBDA g : ForEach(editNode, Done(g), nodes), now)

\* LinkNodesTool.execute
LinkNodesTool(f, tab, edges, now) ==
    Execute(f, tab, LAMBDA g : ForEach(linkNodes, Done(g), edges), now)

\* RemoveNodesTool.execute
RemoveNodesTool(f, tab, ids, now) ==
    Execute(f, tab, LAMBDA g : removeNodes(g, ids), now)

\* CreateTableTool.execute
CreateTableTool(f, tab, table, now) ==
    Execute(f, tab, LAMBDA g : addTable(g, table), now)

\* one operation of EditTableTool.execute
TableOperation(g, op) ==
    IF op.type = "add_column" THEN addTableColumn(g, op.args)
    ELSE IF op.type = "rename_column" THEN renameTableColumn(g, op.args)
    ELSE IF op.type = "remove_column" THEN removeTableColumn(g, op.args)
    ELSE IF op.type = "add_row" THEN addTableRow(g, op.args)
    ELSE IF op.type = "remove_row" THEN removeTableRow(g, op.args)
    ELSE IF op.type = "update_cell" THEN updateTableCell(g, op.args)
    ELSE Thrown(g)

\* EditTableTool.execute
EditTableTool(f, tab, operations, now) ==
    Execute(f, tab, LAMBDA g : ForEach(TableOperation, Done(g), operations), now)

\* NewDiagramTool.execute: saveGraph(new Graph(), file_path, tab)
NewDiagramTool(f, tab, now) ==
    [err |-> FALSE, file |-> saveGraph(f, NewGraph, tab, now), g |-> NewGraph]

-----------------------------------------------------------------------------
(* Graph.getNodeInfo and the copy_nodes tool.                               *)

NoInfo == [found |-> FALSE]

\* the kind getNodeInfo reads off a style
KindFromStyle(style) ==
    LET styleObj == parseStyle(style)
        Is(k, v) == Get(styleObj, <<k>>) = StrV(<<v>>)
    IN  IF ~Truthy(style) THEN <<"Rectangle">>
        ELSE IF Get(styleObj, <<"ellipse">>) # Undef THEN <<"Ellipse">>
        ELSE IF Is("shape", "cylinder3") THEN <<"Cylinder">>
        ELSE IF Is("shape", "cloud") THEN <<"Cloud">>
        ELSE IF Is("shape", "step") THEN <<"Step">>
        ELSE IF Is("shape", "umlActor") THEN <<"Actor">>
        ELSE IF Is("strokeColor", "none") /\ Is("fillColor", "none") THEN <<"Text">>
        ELSE IF Is("aspect", "fixed") /\ Get(styleObj, <<"ellipse">>) # Undef THEN <<"Circle">>
        ELSE IF Is("aspect", "fixed") THEN <<"Square">>
        ELSE IF Is("rounded", "1") /\ Is("absoluteArcSize", "1") THEN <<"RoundedRectangle">>
        ELSE <<"Rectangle">>

\* getNodeInfo(id): NoInfo when it returns null
getNodeInfo(g, id) ==
    LET cell == getCell(g, id)
        c    == g.objs[cell]
    IN  IF cell = None THEN NoInfo
        ELSE IF ~c.vertex THEN NoInfo
        ELSE [found |-> TRUE, id |-> c.id,
              title |-> IF Truthy(c.value) THEN c.value ELSE StrV(<<>>),
              kind |-> KindFromStyle(c.style),
              x |-> c.geom.x, y |-> c.geom.y, width |-> c.geom.width, height |-> c.geom.height,
              parent |-> IF c.parent = None \/ g.objs[c.parent].id = <<>> THEN ROOT
                         ELSE g.objs[c.parent].id,
              data |-> IF Truthy(c.data) THEN JsonParse(c.data) ELSE Undef]

CopyArgs ==
    [source_tab |-> Undef, node_ids |-> <<>>, target_tab |-> Undef, offset_x |-> 0, offset_y |-> 0,
     id_prefix |-> Undef, id_mapping |-> <<>>, copy_connected_edges |-> FALSE]

RECURSIVE FinalIdMapping(_, _, _)
\* finalIdMapping: the explicit entry, else the prefix, else the ID itself
FinalIdMapping(nodes, a, acc) ==
    IF nodes = <<>> THEN acc
    ELSE LET id == Head(nodes).id
             to == IF Truthy(Get(a.id_mapping, id)) THEN Get(a.id_mapping, id)
                   ELSE IF Truthy(a.id_prefix) THEN StrV(a.id_prefix.s \o id)
                   ELSE StrV(id)
         IN  FinalIdMapping(Tail(nodes), a, Put(acc, id, to))

\* the parameter object of the addNode call that makes the copy of a node
CopyOf(node, map, a) ==
    [NodeArgs EXCEPT !.id = Get(map, node.id).s, !.title = node.title, !.kind = StrV(node.kind),
                     !.x = NumV(node.x + a.offset_x), !.y = NumV(node.y + a.offset_y),
                     !.width = NumV(node.width), !.height = NumV(node.height),
                     !.data = node.data]

RECURSIVE InOrder(_)
\* a set of numbers as a sequence, smallest first
InOrder(S) == IF S = {} THEN <<>> ELSE <<Min(S)>> \o InOrder(S \ {Min(S)})

\* a faulty copy of the edges: every edge is linked from its target to its
\* source
EdgeCopiesReversed(g, map, a) ==
    LET ids   == {a.node_ids[i] : i \in 1..Len(a.node_ids)}
        held  == {g.dict[k] : k \in DOMAIN g.dict}
        End(o) == IF o = None THEN <<>> ELSE g.objs[o].id
    IN  Bind(InOrder({o \in held : /\ g.objs[o].edge
                                   /\ End(g.objs[o].source) \in ids \ {<<>>}
                                   /\ End(g.objs[o].target) \in ids \ {<<>>}}), LAMBDA edges :
        [i \in 1..Len(edges) |->
            [LinkArgs EXCEPT !.from = Get(map, End(g.objs[edges[i]].target)).s,
                             !.to = Get(map, End(g.objs[edges[i]].source)).s,
                             !.title = IF Truthy(g.objs[edges[i]].value)
                                       THEN g.objs[edges[i]].value ELSE Undef]])

\* the edges of the source whose two ends are both among node_ids, as the
\* linkNodes calls that copy them
EdgeCopies(g, map, a) ==
    LET ids   == {a.node_ids[i] : i \in 1..Len(a.node_ids)}
        held  == {g.dict[k] : k \in DOMAIN g.dict}
        End(o) == IF o = None THEN <<>> ELSE g.objs[o].id
    IN  Bind(InOrder({o \in held : /\ g.objs[o].edge
                                   /\ End(g.objs[o].source) \in ids \ {<<>>}
                                   /\ End(g.objs[o].target) \in ids \ {<<>>}}), LAMBDA edges :
        [i \in 1..Len(edges) |->
            [LinkArgs EXCEPT !.from = Get(map, End(g.objs[edges[i]].source)).s,
                             !.to = Get(map, End(g.objs[edges[i]].target)).s,
                             !.title = IF Truthy(g.objs[edges[i]].value)
                                       THEN g.objs[edges[i]].value ELSE Undef]])

\* CopyNodesTool.execute: src the source file, tgt the target file; file is
\* the target file after the call
CopyNodesTool(src, tgt, a, now) ==
    Bind(loadGraph(src, a.source_tab), LAMBDA s :
    Bind([i \in 1..Len(a.node_ids) |-> getNodeInfo(s.g, a.node_ids[i])], LAMBDA nodes :
        IF s.err THEN [err |-> TRUE, file |-> tgt, g |-> NoGraph, map |-> <<>>]
        ELSE IF \E i \in 1..Len(nodes) : ~nodes[i].found
        THEN [err |-> TRUE, file |-> tgt, g |-> NoGraph, map |-> <<>>]
        ELSE Bind(FinalIdMapping(nodes, a, <<>>), LAMBDA map :
             Bind([i \in 1..Len(nodes) |-> CopyOf(nodes[i], map, a)], LAMBDA copies :
             Bind(IF a.copy_connected_edges THEN EdgeCopies(s.g, map, a) ELSE <<>>, LAMBDA links :
             Bind(loadGraph(tgt, a.target_tab), LAMBDA t :
             Bind(ForEach(addNode, Done(IF t.err THEN NewGraph ELSE t.g), copies), LAMBDA r1 :
             Bind(ForEach(linkNodes, r1, links), LAMBDA r :
                IF r.err THEN [err |-> TRUE, file |-> tgt, g |-> r.g, map |-> map]
                ELSE [err |-> FALSE, file |-> saveGraph(tgt, r.g, SaveTab(a.target_tab), now),
                      g |-> r.g, map |-> map]))))))))

-----------------------------------------------------------------------------
(* Style codec on its own: stringify a mapping, parse the text back.        *)

MaxEntries == 2

CodecKeys == {<<"a">>, <<"b">>, <<>>}

CodecValues ==
    {Undef, StrV(<<>>), StrV(<<"x">>), StrV(<<"x", "=", "y">>), StrV(<<"x", ";", "b">>),
     NumV(0), NumV(1), NumV(24), BoolV(FALSE), BoolV(TRUE)}

CodecMappings ==
    {m \in UNION {[1..n -> [k : CodecKeys, v : CodecValues]] : n \in 0..MaxEntries} :
        \A i, j \in 1..Len(m) : i # j => m[i].k # m[j].k}

InitCodec ==
    /\ graph = NoGraph
    /\ file = NoFile
    /\ clock = 0
    /\ last = [op |-> "init"]

\* text = stringifyStyle(m); back = parseStyle(text).  The codec keeps no
\* state: a behaviour applies it to one mapping
Roundtrip(m) ==
    /\ last.op = "init"
    /\ last' = [op |-> "roundtrip", m |-> m, text |-> stringifyStyle(m),
                back |-> parseStyle(StrV(stringifyStyle(m)))]
    /\ UNCHANGED <<graph, file, clock>>

\* parseStyle of a mapping: the shallow copy
ParseObject(m) ==
    /\ last.op = "init"
    /\ last' = [op |-> "parseObject", m |-> m, back |-> parseStyle(ObjV(m))]
    /\ UNCHANGED <<graph, file, clock>>

NextCodec ==
    \/ \E m \in CodecMappings : Roundtrip(m)
    \/ \E m \in CodecMappings : ParseObject(m)

SpecCodec == InitCodec /\ [][NextCodec]_vars

Clean(s) == \A i \in 1..Len(s) : s[i] \notin {";", "="}

AllDefined(m) == \A i \in 1..Len(m) : m[i].v # Undef

\* keys are non-empty, values are strings, neither holds a separator
PlainStrings(m) ==
    \A i \in 1..Len(m) : /\ m[i].k # <<>>
                         /\ Clean(m[i].k)
                         /\ m[i].v.t = "string"
                         /\ Clean(m[i].v.s)

\* keys are non-empty and separator-free; a string value is separator-free
PlainKeys(m) ==
    \A i \in 1..Len(m) : /\ m[i].k # <<>>
                         /\ Clean(m[i].k)
                         /\ (m[i].v.t = "string" => Clean(m[i].v.s))

\* C10 as stated: parse(stringify(m)) = m for every mapping m whose values are
\* all defined, falsy-defined values (empty string, numeric zero) included.
C10_Original ==
    (last.op = "roundtrip" /\ AllDefined(last.m) /\ PlainKeys(last.m))
        => AsSet(last.back) = AsSet(last.m)

\* C10 amended: parse(stringify(m)) = m when keys are non-empty and values are
\* strings (the empty string included) free of ";" and "="; stringify omits
\* the keys whose value is undefined (they are absent after parsing), and a
\* falsy-defined value is rendered as a bare key (it parses back as "").
C10_Roundtrip ==
    last.op = "roundtrip" =>
        /\ PlainStrings(last.m) => AsSet(last.back) = AsSet(last.m)
        /\ PlainKeys(last.m) =>
              \A i \in 1..Len(last.m) :
                 LET e == last.m[i]
                 IN  /\ HasKey(last.back, e.k) <=> e.v # Undef
                     /\ (e.v # Undef /\ ~Truthy(e.v)) => Get(last.back, e.k) = StrV(<<>>)
                     /\ Truthy(e.v) => Get(last.back, e.k) = StrV(ToStr(e.v))

\* a mapping with a falsy-defined entry, an undefined entry: "a;" parsed back
C10_Witness ==
    /\ last.op = "roundtrip"
    /\ PlainKeys(last.m)
    /\ \E i \in 1..Len(last.m) : last.m[i].v = StrV(<<>>)
    /\ \E i \in 1..Len(last.m) : last.m[i].v = Undef
    /\ last.text = <<"a", ";">>
-----------------------------------------------------------------------------
(* Vertices: addNode on a graph that starts as new Graph().                 *)

MaxNodes == 2

MaxRadius == 3

\* generated numeric ids stop here
MaxAutoId == 4

NodeIds == {<<"a">>, <<"b">>}

RadiusInputs ==
    {Undef, Null, NaN, StrV(<<"x">>)} \cup {NumV(n) : n \in -1..MaxRadius}

AddParents == {Undef, StrV(<<"a">>)}

\* the corner radius is varied for the one kind that reads it
AddInputs ==
    {[NodeArgs EXCEPT !.id = id, !.title = StrV(id), !.kind = StrV(KIND_ROUNDED_RECTANGLE),
                      !.corner_radius = cr, !.parent = parent] :
        id \in NodeIds, cr \in RadiusInputs, parent \in AddParents}
    \cup
    {[NodeArgs EXCEPT !.id = id, !.title = StrV(id), !.kind = kind, !.parent = parent] :
        id \in NodeIds, kind \in {Undef, StrV(<<"Text">>)}, parent \in AddParents}
    \cup
    {[NodeArgs EXCEPT !.id = <<"b">>, !.title = StrV(<<"b">>), !.parent = StrV(ROOT)]}

Vertices(g) == {o \in 1..Len(g.objs) : g.objs[o].vertex /\ InTree(g, o)}

InitNode ==
    /\ graph = NewGraph
    /\ file = NoFile
    /\ clock = 0
    /\ last = [op |-> "init"]

NodeAdd(a) ==
    /\ Cardinality(Vertices(graph)) < MaxNodes
    /\ graph.nextId < MaxAutoId
    /\ LET r == addNode(graph, a)
       IN  /\ graph' = Compact(r.g)
           /\ last' = [op |-> "addNode", args |-> a, err |-> r.err,
                       node |-> IF r.err THEN None ELSE Newest(Compact(r.g))]
    /\ UNCHANGED <<file, clock>>

NodeRemove(id) ==
    /\ graph' = Compact(removeNodes(graph, <<id>>).g)
    /\ last' = [op |-> "removeNodes", ids |-> <<id>>, err |-> FALSE]
    /\ UNCHANGED <<file, clock>>

NextNode ==
    \/ \E a \in AddInputs : NodeAdd(a)
    \/ \E id \in NodeIds \cup {<<"2">>} : NodeRemove(id)

SpecNode == InitNode /\ [][NextNode]_vars

\* a radius that is no number after coercion, or is below 1
InvalidRadius(cr) ==
    \/ cr.t \in {"null", "nan"}
    \/ cr.t = "string" /\ ~IsNumeric(cr.s)
    \/ cr.t = "number" /\ cr.n < 1

AddedRounded ==
    /\ last.op = "addNode"
    /\ ~last.err
    /\ last.args.kind = StrV(KIND_ROUNDED_RECTANGLE)
    /\ last.args.style = Undef

\* C9: addNode with kind RoundedRectangle and an integer corner radius r >= 1
\* gives a vertex whose style has absoluteArcSize = 1 and arcSize = 2r; with
\* the radius omitted or invalid (no number, or < 1) the arcSize is 24.
C9_ArcSize ==
    AddedRounded =>
        LET st == parseStyle(graph.objs[last.node].style)
            cr == last.args.corner_radius
        IN  /\ (cr.t = "number" /\ cr.n >= 1) =>
                  /\ Get(st, PROP_ABSOLUTE_ARC_SIZE) = StrV(<<"1">>)
                  /\ Get(st, PROP_ARC_SIZE) = StrV(Dec(2 * cr.n))
            /\ (cr = Undef \/ InvalidRadius(cr)) =>
                  /\ Get(st, PROP_ABSOLUTE_ARC_SIZE) = StrV(<<"1">>)
                  /\ Get(st, PROP_ARC_SIZE) = StrV(<<"2", "4">>)

\* a rounded rectangle added with radius 3: arcSize 6
C9_Witness ==
    /\ AddedRounded
    /\ last.args.corner_radius = NumV(3)
    /\ Get(parseStyle(graph.objs[last.node].style), PROP_ARC_SIZE) = StrV(<<"6">>)
\* the cell the parent argument of the call stands for in the graph, if any
ParentCell(g, a) ==
    IF a.parent = Undef \/ a.parent = StrV(ROOT) THEN Root ELSE getCell(g, a.parent.s)

-----------------------------------------------------------------------------
(* Edges: linkNodes between the vertices a and b, on a graph where a vertex  *)
(* may carry an id of the form x-2-y.                                        *)

LinkEnds == {<<"a">>, <<"b">>}

LinkVertexIds == LinkEnds \cup {idDirect(<<"a">>, <<"b">>)}

LinkInputs ==
    {a \in {[LinkArgs EXCEPT !.from = f, !.to = t, !.title = title, !.undirected = u] :
                f \in LinkEnds, t \in LinkEnds, title \in {Undef, StrV(<<"x">>)},
                u \in {Undef, BoolV(TRUE)}} : a.from # a.to}

\* the cell under the key is a vertex of the tree
IsVertex(g, id) ==
    /\ getCell(g, id) # None
    /\ g.objs[getCell(g, id)].vertex
    /\ InTree(g, getCell(g, id))

\* the edges of the tree that join the vertices with ids x and y, either way
EdgesBetween(g, x, y) ==
    {o \in 1..Len(g.objs) :
        /\ g.objs[o].edge
        /\ InTree(g, o)
        /\ {IdOf(g, g.objs[o].source), IdOf(g, g.objs[o].target)} = {x, y}}

InitLink ==
    /\ graph = NewGraph
    /\ file = NoFile
    /\ clock = 0
    /\ last = [op |-> "init"]

\* the ids added here are free ones: a taken id is the subject of NodeAdd
LinkAddNode(id) ==
    /\ id \notin DOMAIN graph.dict
    /\ LET r == addNode(graph, [NodeArgs EXCEPT !.id = id, !.title = StrV(id)])
       IN  /\ graph' = Compact(r.g)
           /\ last' = [op |-> "addNode", id |-> id, err |-> r.err]
    /\ UNCHANGED <<file, clock>>

\* last.prev is the call before when that was a linkNodes call as well
Link(a) ==
    /\ LET r == linkNodes(graph, a)
       IN  /\ graph' = Compact(r.g)
           /\ last' = [op |-> "linkNodes", args |-> a, id |-> r.id, before |-> graph,
                       prev |-> IF last.op = "linkNodes"
                                THEN [op |-> "linkNodes", args |-> last.args, id |-> last.id,
                                      created |-> Len(graph.objs) > Len(last.before.objs)]
                                ELSE [op |-> "none"]]
    /\ UNCHANGED <<file, clock>>

LinkRemove(id) ==
    /\ id \in DOMAIN graph.dict
    /\ graph' = Compact(removeNodes(graph, <<id>>).g)
    /\ last' = [op |-> "removeNodes", ids |-> <<id>>, err |-> FALSE]
    /\ UNCHANGED <<file, clock>>

NextLink ==
    \/ \E id \in LinkVertexIds : LinkAddNode(id)
    \/ \E a \in LinkInputs : Link(a)
    \/ \E id \in LinkVertexIds \cup {idReverse(<<"a">>, <<"b">>)} : LinkRemove(id)

SpecLink == InitLink /\ [][NextLink]_vars
\* the last call is linkNodes(A, B) on a graph where A and B are vertices
LinkedExisting ==
    /\ last.op = "linkNodes"
    /\ IsVertex(last.before, last.args.from)
    /\ IsVertex(last.before, last.args.to)

\* the call before was a linkNodes call on the same unordered pair, and it
\* made an edge
SecondOfTwo ==
    /\ LinkedExisting
    /\ last.prev.op = "linkNodes"
    /\ {last.prev.args.from, last.prev.args.to} = {last.args.from, last.args.to}
    /\ last.prev.created

\* C4: linkNodes called twice in a row on a pair of existing vertices (same or
\* opposite order, directed or undirected) leaves one edge between them: the
\* second call adds no cell, returns the ID the first call returned, and the
\* edge the first call made carries the second call's style and, when one is
\* given, its label.
C4_Twice ==
    SecondOfTwo =>
        LET a == last.args
            e == getCell(graph, last.id)
        IN  /\ Len(graph.objs) = Len(last.before.objs)
            /\ DOMAIN graph.dict = DOMAIN last.before.dict
            /\ last.id = last.prev.id
            /\ EdgesBetween(graph, a.from, a.to) = {e}
            /\ graph.objs[e].style
                  = StrV(toStyleString(ObjV(computeEffectiveLineStyle(a.style, a.undirected))))
            /\ graph.objs[e].value
                  = IF a.title # Undef THEN a.title ELSE last.before.objs[e].value

\* a-2-b made by linkNodes(a, b), then linkNodes(b, a) with a label: found
\* under the reverse ID and relabelled
C4_Witness ==
    /\ SecondOfTwo
    /\ last.prev.args.from = <<"a">>
    /\ last.args.from = <<"b">>
    /\ last.args.title = StrV(<<"x">>)
    /\ last.id = idDirect(<<"a">>, <<"b">>)
    /\ last.before.objs[getCell(graph, last.id)].value = Null
    /\ graph.objs[getCell(graph, last.id)].value = StrV(<<"x">>)

\* C5: on a graph with no edge between the existing vertices A and B,
\* linkNodes(A, B, undirected) makes an edge whose ID is the canonical one,
\* min-2-max in lexicographic order, and a following linkNodes(B, A,
\* undirected) returns that same ID; without undirected the new edge has the
\* direct ID from-2-to.
C5_Original ==
    /\ (LinkedExisting /\ EdgesBetween(last.before, last.args.from, last.args.to) = {}) =>
          LET a  == last.args
              id == IF Truthy(a.undirected)
                    THEN (IF StrLess(a.from, a.to) THEN idDirect(a.from, a.to)
                          ELSE idDirect(a.to, a.from))
                    ELSE idDirect(a.from, a.to)
          IN  /\ last.id = id
              /\ Len(graph.objs) = Len(last.before.objs) + 1
              /\ EdgesBetween(graph, a.from, a.to) = {getCell(graph, id)}
    /\ (SecondOfTwo /\ Truthy(last.args.undirected) /\ Truthy(last.prev.args.undirected)) =>
          last.id = last.prev.id

\* the last call is a linkNodes call that made a new edge
LinkCreated == last.op = "linkNodes" /\ Len(graph.objs) > Len(last.before.objs)

\* C14: whenever linkNodes(from, to) makes a new edge, from and to are both
\* vertices of the graph at the time of the call; a call with an endpoint
\* that is no vertex makes no edge.
C14_Original ==
    LinkCreated => IsVertex(last.before, last.args.from) /\ IsVertex(last.before, last.args.to)

\* the cell the call found under the direct, reverse or canonical ID
Found == FindExisting(last.before, last.args.from, last.args.to)

FoundEdge == last.op = "linkNodes" /\ Found # None /\ last.before.objs[Found].edge

\* C17: when linkNodes finds an edge under the direct, else the reverse, else
\* the canonical ID, it sets that edge's style, and its label when the call
\* gives one: the edge keeps its ID, source and target, and no other cell is
\* added, removed or changed.
C17_Frame ==
    FoundEdge =>
        LET a   == last.args
            old == last.before.objs[Found]
        IN  /\ last.id = old.id
            /\ graph.dict = last.before.dict
            /\ graph.objs
                 = [last.before.objs EXCEPT ![Found] =
                      [old EXCEPT !.value = IF a.title # Undef THEN a.title ELSE old.value,
                                  !.style = StrV(toStyleString(ObjV(
                                               computeEffectiveLineStyle(a.style, a.undirected))))]]

\* linkNodes(b, a, undirected) without a label finds the labelled directed
\* edge a-2-b under the reverse ID: the label stays, the style changes
C17_Witness ==
    /\ FoundEdge
    /\ last.args.from = <<"b">>
    /\ last.args.title = Undef
    /\ Truthy(last.args.undirected)
    /\ last.id = idDirect(<<"a">>, <<"b">>)
    /\ graph.objs[Found].value = StrV(<<"x">>)
    /\ graph.objs[Found].style # last.before.objs[Found].style
    /\ Cardinality(DOMAIN graph.dict) > 3

\* C28: the ID linkNodes(from, to) returns, from and to being vertices of
\* the graph, is the ID of an edge whose two ends are from and to, whatever
\* else the graph holds; so calls for different pairs give different cells.
C28_Original ==
    LinkedExisting =>
        LET o == getCell(graph, last.id)
            EndId(e) == IF e = None THEN <<>> ELSE graph.objs[e].id
        IN  /\ o # None
            /\ graph.objs[o].edge
            /\ {EndId(graph.objs[o].source), EndId(graph.objs[o].target)}
                  = {last.args.from, last.args.to}

-----------------------------------------------------------------------------
(* Tables: create_table, then the operations of edit_table on the graph the  *)
(* call has loaded; a save ends the call and the next call loads the page    *)
(* again.  An operation that throws ends its call without a save.  clock    *)
(* counts the operations.                                                    *)

MaxCols == 3

MaxRows == 2

MaxTableOps == 3

T == <<"t">>

HeaderH == StrV(<<"h">>)

HeaderK == StrV(<<"k">>)

HeaderN == StrV(<<"n">>)

TableCreateInputs ==
    {[TableArgs EXCEPT !.id = T, !.headers = hs,
                       !.rows = [i \in 1..nr |->
                                    [j \in 1..Len(hs) |->
                                        IF (i + j) % 2 = 0 THEN StrV(<<"v">>) ELSE StrV(<<"w">>)]]] :
        hs \in {<<HeaderH>>, <<HeaderH, HeaderK>>}, nr \in 0..MaxRows}

AddColumnInputs ==
    {[ColumnArgs EXCEPT !.tableId = T, !.header = HeaderN, !.position = NumV(p),
                        !.defaultValue = StrV(<<"d">>)] : p \in (0 - 1)..MaxCols}

RemoveColumnInputs ==
    {[tableId |-> T, column |-> c] : c \in {HeaderH, HeaderN} \cup {NumV(i) : i \in 0..MaxCols}}

AddRowInputs ==
    {[tableId |-> T, values |-> [j \in 1..n |-> StrV(<<"x">>)], position |-> NumV(p)] :
        n \in 1..MaxCols, p \in (0 - 1)..0}

RemoveRowInputs == {[tableId |-> T, row |-> r] : r \in 0..MaxRows}

UpdateCellInputs ==
    {[tableId |-> T, row |-> r, column |-> c, value |-> v] :
        r \in 0..(MaxRows - 1), c \in {HeaderK, NumV(0)}, v \in {StrV(<<>>), StrV(<<"u">>)}}

RenameInputs == {[tableId |-> T, oldHeader |-> HeaderH, newHeader |-> HeaderN]}

NoArgs == [set |-> FALSE]

\* the page as the next call loads it
Loaded(f) == loadGraph(f, Undef).g

InitTable ==
    /\ file = saveGraph(NoFile, NewGraph, Undef, 0)
    /\ graph = Loaded(saveGraph(NoFile, NewGraph, Undef, 0))
    /\ clock = 0
    /\ last = [op |-> "init", err |-> FALSE, created |-> NoArgs, inserted |-> NoArgs]

Failed(op) == [op |-> op, err |-> TRUE, created |-> NoArgs, inserted |-> NoArgs]

\* CreateTableTool.execute: load, addTable, save
TableCreate(a) ==
    /\ clock < MaxTableOps
    /\ getCell(graph, a.id) = None
    /\ LET r == addTable(Loaded(file), a)
           f == saveGraph(file, r.g, Undef, clock)
       IN  IF r.err
           THEN /\ file' = file
                /\ graph' = Loaded(file)
                /\ last' = Failed("createTable")
           ELSE /\ file' = f
                /\ graph' = Loaded(f)
                /\ last' = [op |-> "createTable", args |-> a, err |-> FALSE, before |-> graph,
                            created |-> [set |-> TRUE, args |-> a], inserted |-> NoArgs]
    /\ clock' = clock + 1

\* one operation of an edit_table call, r its outcome.  last keeps what the
\* operation was applied to: prev.created is set when that was the table as
\* createTable made it, prev.inserted when it was such a table with one column
\* put in
TableOp(op, a, r, inserted) ==
    /\ clock < MaxTableOps
    /\ getCell(graph, T) # None
    /\ IF r.err
       THEN /\ graph' = Loaded(file)
            /\ last' = Failed(op)
       ELSE /\ graph' = Compact(r.g)
            /\ last' = [op |-> op, args |-> a, err |-> FALSE, before |-> graph,
                        created |-> NoArgs, inserted |-> inserted,
                        prev |-> [created |-> last.created, inserted |-> last.inserted]]
    /\ clock' = clock + 1
    /\ UNCHANGED file

\* the graph before a column goes into the table as createTable made it, and
\* where the column goes
Inserted(a) ==
    IF last.created.set
    THEN [set |-> TRUE, before |-> graph, created |-> last.created.args,
          pos |-> IF a.position.n = 0 - 1 THEN Len(last.created.args.headers) ELSE a.position.n]
    ELSE NoArgs

AddColumn(a) ==
    /\ IF getTableInfo(graph, T).err THEN TRUE
       ELSE Len(getTableInfo(graph, T).columns) < MaxCols
    /\ TableOp("addColumn", a, addTableColumn(graph, a), Inserted(a))

RenameColumn(a) == TableOp("renameColumn", a, renameTableColumn(graph, a), NoArgs)

RemoveColumn(a) == TableOp("removeColumn", a, removeTableColumn(graph, a), NoArgs)

AddRow(a) ==
    /\ IF getTableInfo(graph, T).err THEN TRUE
       ELSE Len(getTableInfo(graph, T).rows) < MaxRows
    /\ TableOp("addRow", a, addTableRow(graph, a), NoArgs)

RemoveRow(a) == TableOp("removeRow", a, removeTableRow(graph, a), NoArgs)

UpdateCell(a) == TableOp("updateCell", a, updateTableCell(graph, a), NoArgs)

\* the call ends: saveGraph; the next call starts: loadGraph
TableSave ==
    /\ clock < MaxTableOps
    /\ getCell(graph, T) # None
    /\ last.op # "save"
    /\ file' = saveGraph(file, graph, Undef, clock)
    /\ graph' = Loaded(saveGraph(file, graph, Undef, clock))
    /\ last' = [op |-> "save", err |-> FALSE, created |-> last.created,
                inserted |-> last.inserted]
    /\ clock' = clock + 1

NextTable ==
    \/ \E a \in TableCreateInputs : TableCreate(a)
    \/ \E a \in AddColumnInputs : AddColumn(a)
    \/ \E a \in RenameInputs : RenameColumn(a)
    \/ \E a \in RemoveColumnInputs : RemoveColumn(a)
    \/ \E a \in AddRowInputs : AddRow(a)
    \/ \E a \in RemoveRowInputs : RemoveRow(a)
    \/ \E a \in UpdateCellInputs : UpdateCell(a)
    \/ TableSave

SpecTable == InitTable /\ [][NextTable]_vars

\* what reading the table's cells gives: the ID, label and geometry of every
\* cell in the container
CellsView(g) ==
    {[id |-> g.objs[o].id, value |-> g.objs[o].value, geom |-> g.objs[o].geom] :
        o \in ChildrenOf(g, getCell(g, T))}

Structural == {"createTable", "addColumn", "removeColumn", "addRow", "removeRow"}

\* C6: after createTable and after every structural edit that returns without
\* error, the container is columns.length * cellWidth wide and
\* (rowCount + 1) * cellHeight high, columns and rowCount as getTableInfo
\* gives them.
C6_Original ==
    (last.op \in Structural /\ ~last.err) =>
        LET info == getTableInfo(graph, T)
        IN  /\ ~info.err
            /\ info.width = Len(info.columns) * info.cellWidth
            /\ info.height = (Len(info.rows) + 1) * info.cellHeight

\* the column that the insertion before this removal put in, named by its
\* index or by its header
RemovedInserted ==
    /\ last.op = "removeColumn"
    /\ ~last.err
    /\ last.prev.inserted.set
    /\ last.args.column \in {NumV(last.prev.inserted.pos), HeaderN}

\* C7: a column inserted at any position of a table as createTable made it
\* and then removed leaves the original column list, and every cell with the
\* ID, label and geometry it had before the insertion.
C7_Original ==
    RemovedInserted =>
        /\ getTableInfo(graph, T).columns = last.prev.inserted.created.headers
        /\ CellsView(graph) = CellsView(last.prev.inserted.before)

\* C8: updateTableCell(r, c, v) on the table as createTable made it, v any
\* string: getTableInfo gives the headers as columns, and the rows of the
\* creation with v at (r, c) and nothing else changed.
C8_Original ==
    (last.op = "updateCell" /\ ~last.err /\ last.prev.created.set) =>
        LET made == last.prev.created.args
            info == getTableInfo(graph, T)
            c    == ResolveColumn(made.headers, last.args.column)
        IN  /\ info.columns = made.headers
            /\ info.rows = [made.rows EXCEPT ![last.args.row + 1][c + 1] = last.args.value]

\* the cell under the ID is a child of the table at column col, line line
\* (line 0 the header row) of the grid
PlacedAt(g, id, col, line) ==
    LET info == getTableInfo(g, T)
        c    == getCell(g, id)
    IN  /\ c # None
        /\ c \in ChildrenOf(g, getCell(g, T))
        /\ g.objs[c].id = id
        /\ g.objs[c].geom.x = col * info.cellWidth
        /\ g.objs[c].geom.y = line * info.cellHeight

\* C18: after createTable and after every structural edit that returns
\* without error, the cell {id}_header_c{c} exists at x = c * cellWidth,
\* y = 0 for every column index c, and the cell {id}_r{r}_c{c} exists at
\* x = c * cellWidth, y = (r + 1) * cellHeight for every row index r.
C18_Original ==
    (last.op \in Structural /\ ~last.err) =>
        LET info == getTableInfo(graph, T)
        IN  /\ ~info.err
            /\ \A c \in 0..(Len(info.columns) - 1) :
                /\ PlacedAt(graph, HeaderId(T, c), c, 0)
                /\ \A r \in 0..(Len(info.rows) - 1) : PlacedAt(graph, DataId(T, r, c), c, r + 1)

AddedColumn == last.op = "addColumn" /\ ~last.err

\* the index an insert position stands for, -1 the end
InsertAt(position, length) == IF position.n = 0 - 1 THEN length ELSE position.n

\* C19: after addTableColumn(header h, defaultValue d, position p) on a table
\* with columns C and rows R, getTableInfo gives C with h spliced in at p and
\* every row with d inserted at p, and every header is the label of the
\* header cell with its index in the ID.
C19_Original ==
    AddedColumn =>
        LET a   == last.args
            old == getTableInfo(last.before, T)
            new == getTableInfo(graph, T)
            p   == InsertAt(a.position, Len(old.columns))
        IN  /\ new.columns = SpliceIn(old.columns, p, a.header)
            /\ new.rows = [r \in 1..Len(old.rows) |-> SpliceIn(old.rows[r], p, a.defaultValue)]
            /\ \A c \in 1..Len(new.columns) :
                /\ getCell(graph, HeaderId(T, c - 1)) # None
                /\ graph.objs[getCell(graph, HeaderId(T, c - 1))].value = new.columns[c]

AddedRow == last.op = "addRow" /\ ~last.err

\* C20: after addTableRow(values V, position p) on a table with rows R,
\* getTableInfo gives R with V inserted at p, the rows from p on renamed to
\* their index + 1 with no row lost or overwritten; a call whose value count
\* differs from the column count throws and changes no cell.
C20_Original ==
    /\ AddedRow =>
        LET old == getTableInfo(last.before, T)
            new == getTableInfo(graph, T)
        IN  new.rows = SpliceIn(old.rows, InsertAt(last.args.position, Len(old.rows)),
                                last.args.values)
    /\ ~getTableInfo(graph, T).err =>
        \A a \in AddRowInputs :
            Len(a.values) # Len(getTableInfo(graph, T).columns) =>
                addTableRow(graph, a) = Thrown(graph)

\* the column argument names no column of the list
ColumnNotFound(columns, column) ==
    IF column.t = "string" THEN \A i \in 1..Len(columns) : columns[i] # column
    ELSE column.n < 0 \/ column.n > Len(columns) - 1

\* C21: removeTableColumn throws and leaves the graph as it was when the
\* column is not found (a header that is not in the column list, an index
\* outside 0..columns.length - 1) and when the table has one column;
\* otherwise the column's header and values are gone and the higher columns
\* are one index down.
C21_Original ==
    /\ ~getTableInfo(graph, T).err =>
        \A a \in RemoveColumnInputs :
            (ColumnNotFound(getTableInfo(graph, T).columns, a.column)
                \/ Len(getTableInfo(graph, T).columns) = 1)
            => removeTableColumn(graph, a) = Thrown(graph)
    /\ (last.op = "removeColumn" /\ ~last.err /\ last.prev.created.set) =>
        LET old == getTableInfo(last.before, T)
            new == getTableInfo(graph, T)
            at  == ResolveColumn(old.columns, last.args.column)
        IN  ~ColumnNotFound(old.columns, last.args.column) =>
               /\ new.columns = SpliceOut(old.columns, at)
               /\ new.rows = [r \in 1..Len(old.rows) |-> SpliceOut(old.rows[r], at)]

-----------------------------------------------------------------------------
(* Documents: tool calls on a document of several pages, tab given as a     *)
(* page name, as an index, or not at all.  clock is Date.now().             *)

MaxCalls == 2

NameA == <<"A">>

NameB == <<"B">>

NameC == <<"C">>

NodeN == <<"n">>

NodeM == <<"m">>

DocNode(id, parent) ==
    [NodeArgs EXCEPT !.id = id, !.title = StrV(id), !.kind = StrV(<<"Rectangle">>),
                     !.parent = parent, !.x = NumV(0), !.y = NumV(0)]

\* a block in which parseDiagrams finds no model fragment
Modelless(id, name) == [id |-> id, name |-> name, has |-> FALSE, xml |-> <<>>]

PageA == Block(<<"p", "1">>, NameA, toXML(addNode(NewGraph, DocNode(NodeN, Undef)).g))

PageB == Block(<<"p", "2">>, NameB, toXML(NewGraph))

Documents ==
    {[exists |-> TRUE, blocks |-> <<PageA, PageB>>],
     [exists |-> TRUE, blocks |-> <<PageA, Modelless(<<"p", "3">>, <<"Z">>), PageB>>]}

DocTabs == {Undef, StrV(NameB), StrV(NameC), NumV(1)}

\* the second batch throws at its second item: the parent does not exist
AddBatches == {<<DocNode(NodeM, Undef)>>, <<DocNode(NodeM, Undef), DocNode(<<"k">>, StrV(<<"z">>))>>}

DocEdit(id) == [NodeArgs EXCEPT !.id = id, !.title = StrV(<<"x">>)]

EditBatches == {<<DocEdit(NodeN)>>, <<DocEdit(NodeM), DocEdit(NodeN)>>}

LinkBatches == {<<[LinkArgs EXCEPT !.from = NodeN, !.to = NodeM]>>}

RemoveBatches == {<<NodeN>>, <<NodeM>>}

DocTable == [TableArgs EXCEPT !.id = T, !.headers = <<HeaderH, HeaderK>>]

Rename == [type |-> "rename_column", args |-> [tableId |-> T, oldHeader |-> HeaderH, newHeader |-> HeaderN]]

\* the second batch throws at its second item: no column h is left
TableBatches ==
    {<<Rename>>, <<Rename, [type |-> "remove_column", args |-> [tableId |-> T, column |-> HeaderH]]>>}

InitDoc ==
    /\ file \in Documents
    /\ graph = NoGraph
    /\ clock = 0
    /\ last = [op |-> "init", err |-> FALSE]

\* one call of a tool, out its outcome
Call(op, tab, items, out) ==
    /\ clock < MaxCalls
    /\ file' = out.file
    /\ graph' = IF out.g = NoGraph THEN NoGraph ELSE Compact(out.g)
    /\ last' = [op |-> op, tab |-> tab, items |-> items, err |-> out.err, before |-> file]
    /\ clock' = clock + 1

CallAddNodes(tab, nodes) ==
    Call("add_nodes", tab, nodes, AddNodeTool(file, tab, nodes, clock))

CallEditNodes(tab, nodes) ==
    Call("edit_nodes", tab, nodes, EditNodeTool(file, tab, nodes, clock))

CallLinkNodes(tab, edges) ==
    Call("link_nodes", tab, edges, LinkNodesTool(file, tab, edges, clock))

CallRemoveNodes(tab, ids) ==
    Call("remove_nodes", tab, ids, RemoveNodesTool(file, tab, ids, clock))

CallCreateTable(tab) ==
    Call("create_table", tab, <<DocTable>>, CreateTableTool(file, tab, DocTable, clock))

CallEditTable(tab, operations) ==
    Call("edit_table", tab, operations, EditTableTool(file, tab, operations, clock))

CallNewDiagram(tab) ==
    Call("new_diagram", tab, <<>>, NewDiagramTool(file, tab, clock))

NextDoc ==
    \/ \E tab \in DocTabs, nodes \in AddBatches : CallAddNodes(tab, nodes)
    \/ \E tab \in DocTabs, nodes \in EditBatches : CallEditNodes(tab, nodes)
    \/ \E tab \in DocTabs, edges \in LinkBatches : CallLinkNodes(tab, edges)
    \/ \E tab \in DocTabs, ids \in RemoveBatches : CallRemoveNodes(tab, ids)
    \/ \E tab \in DocTabs : CallCreateTable(tab)
    \/ \E tab \in DocTabs, operations \in TableBatches : CallEditTable(tab, operations)
    \/ \E tab \in {Undef, StrV(NameB), StrV(NameC)} : CallNewDiagram(tab)

SpecDoc == InitDoc /\ [][NextDoc]_vars

Mutating == {"add_nodes", "edit_nodes", "link_nodes", "remove_nodes", "create_table", "edit_table"}

\* the pages of the document before the call, and after it
PagesBefore == parseDiagrams(last.before)

PagesAfter == parseDiagrams(file)

\* the index of the page the call loaded
PageLoaded ==
    IF last.tab.t = "number" THEN last.tab.n ELSE FindIndex(PagesBefore, last.tab.s)

\* C1: a mutating tool call on a document of several pages, tab a page name
\* or a zero-based index, writes the modified model back to the page it
\* loaded and leaves the model fragment of every other page as it was.
C1_Original ==
    (last.op \in Mutating /\ ~last.err /\ last.tab # Undef /\ Len(PagesBefore) > 1) =>
        /\ Len(PagesAfter) = Len(PagesBefore)
        /\ PagesAfter[PageLoaded + 1].mxGraphModelXML = toXML(graph)
        /\ \A j \in 1..Len(PagesBefore) :
              j # PageLoaded + 1 =>
                  PagesAfter[j].mxGraphModelXML = PagesBefore[j].mxGraphModelXML

\* the name saveGraph was given by the call
SavedAs == IF last.op = "new_diagram" THEN last.tab ELSE SaveTab(last.tab)

\* the page name saveGraph looks for
TargetName == IF Truthy(SavedAs) THEN SavedAs.s ELSE PagesBefore[1].name

\* a call that saved into a document in which the target name is a page's
SavedOver ==
    /\ last.op # "init"
    /\ ~last.err
    /\ PagesBefore # <<>>
    /\ FindIndex(PagesBefore, TargetName) >= 0

\* C2: saveGraph under the name of an existing page replaces that page's
\* model fragment only: the other pages' fragments are what they were, and
\* the IDs, names, order and number of the pages are unchanged.
C2_ReplaceOnly ==
    SavedOver =>
        /\ Len(PagesAfter) = Len(PagesBefore)
        /\ \A j \in 1..Len(PagesBefore) :
              /\ PagesAfter[j].id = PagesBefore[j].id
              /\ PagesAfter[j].name = PagesBefore[j].name
              /\ PagesAfter[j].mxGraphModelXML =
                    IF j = FindIndex(PagesBefore, TargetName) + 1 THEN toXML(graph)
                    ELSE PagesBefore[j].mxGraphModelXML

\* add_nodes saved under "B" into a document with pages A and B: B's fragment
\* is new, A's is the old one
C2_Witness ==
    /\ SavedOver
    /\ last.op = "add_nodes"
    /\ last.tab = StrV(NameB)
    /\ Len(PagesBefore) = 2
    /\ PagesAfter[2].mxGraphModelXML # PagesBefore[2].mxGraphModelXML
    /\ PagesAfter[1].mxGraphModelXML = PagesBefore[1].mxGraphModelXML

Batched == {"add_nodes", "edit_nodes", "link_nodes", "remove_nodes"}

\* the batch of the call applied to g
Batch(g) ==
    IF last.op = "add_nodes" THEN ForEach(addNode, Done(g), last.items)
    ELSE IF last.op = "edit_nodes" THEN ForEach(editNode, Done(g), last.items)
    ELSE IF last.op = "link_nodes" THEN ForEach(linkNodes, Done(g), last.items)
    ELSE removeNodes(g, last.items)

\* C3: a batch call that fails leaves the document file exactly as it was;
\* a batch call that succeeds has saved the page with every item applied.
C3_Atomic ==
    (last.op \in Batched) =>
        IF last.err THEN file = last.before
        ELSE \E j \in 1..Len(PagesAfter) :
                PagesAfter[j].mxGraphModelXML
                    = toXML(Batch(loadGraph(last.before, last.tab).g).g)

\* add_nodes whose second item throws after the first went into the graph in
\* memory: the file is the one before the call
C3_Witness ==
    /\ last.op = "add_nodes"
    /\ last.err
    /\ Len(last.items) = 2
    /\ getCell(graph, NodeM) # None
    /\ getCell(loadGraph(last.before, last.tab).g, NodeM) = None
    /\ file = last.before

\* the page blocks of the document as <<id, name>>
BlockKeys(f) == {<<f.blocks[i].id, f.blocks[i].name>> : i \in 1..Len(f.blocks)}

\* C27: a save never removes a page: every page block of the document before
\* the call, one without a model fragment included, is in the document after
\* it.
C27_Original ==
    (last.op # "init" /\ ~last.err) => BlockKeys(last.before) \subseteq BlockKeys(file)

-----------------------------------------------------------------------------
(* Copies: a source document built by add_nodes and link_nodes, then        *)
(* copy_nodes into a new file or into another tab of the same file.  file   *)
(* is the source document, graph the target graph of the last copy, clock   *)
(* counts the calls.                                                         *)

MaxCopyCalls == 4

MaxCopies == 1

NodeQ == <<"q">>

PrefixP == <<"p", "_">>

SomeData == ObjV(<<Entry(<<"owner">>, StrV(<<"ann">>))>>)

\* the vertex n in every kind, with and without custom data; the vertex m
SourceNodes ==
    {[NodeArgs EXCEPT !.id = NodeN, !.title = StrV(NodeN), !.kind = StrV(k), !.x = NumV(20),
                      !.y = NumV(30), !.data = d] : k \in KindNames, d \in {Undef, SomeData}}
    \cup {[NodeArgs EXCEPT !.id = NodeM, !.title = StrV(NodeM), !.kind = StrV(<<"Rectangle">>),
                           !.x = NumV(200), !.y = NumV(30)]}

SourceLinks ==
    {<<[LinkArgs EXCEPT !.from = NodeN, !.to = NodeM, !.title = StrV(<<"x">>)]>>,
     <<[LinkArgs EXCEPT !.from = NodeM, !.to = <<"o">>]>>}

\* the target: a file that does not exist, or tab B of the source file
CopyTargets == {"new", "tab"}

CopyInputs ==
    {[CopyArgs EXCEPT !.node_ids = ids, !.id_prefix = p, !.id_mapping = mp,
                      !.offset_x = o[1], !.offset_y = o[2], !.copy_connected_edges = e] :
        ids \in {<<NodeN>>, <<NodeN, NodeM>>, <<<<"z">>>>},
        p \in {Undef, StrV(PrefixP)},
        mp \in {<<>>, <<Entry(NodeN, StrV(NodeQ))>>},
        o \in {<<0, 0>>, <<10, 5>>},
        e \in BOOLEAN}

\* a page drawn in an editor: the rectangles n and m, joined by one edge
\* each way
DrawnPage ==
    LET plain(id) == [NodeArgs EXCEPT !.id = id, !.title = StrV(id), !.kind = StrV(<<"Rectangle">>)]
        g2 == addNode(addNode(NewGraph, plain(NodeN)).g, plain(NodeM)).g
        g3 == insertEdge(g2, Root, <<"e", "1">>, Null, getCell(g2, NodeN), getCell(g2, NodeM))
    IN  insertEdge(g3, Root, <<"e", "2">>, Null, getCell(g3, NodeM), getCell(g3, NodeN))

\* the source starts as a new diagram, or as a document with the drawn page
InitCopy ==
    /\ \/ /\ file = saveGraph(NoFile, NewGraph, Undef, 0)
          /\ last = [op |-> "init", err |-> FALSE, made |-> <<>>, copies |-> 0]
       \/ /\ file = saveGraph(NoFile, DrawnPage, Undef, 0)
          /\ last = [op |-> "init", err |-> FALSE,
                     made |-> <<Entry(NodeN, StrV(<<"Rectangle">>)),
                                Entry(NodeM, StrV(<<"Rectangle">>))>>, copies |-> 0]
    /\ graph = NoGraph
    /\ clock = 0

\* add_nodes on the source: made keeps the kind each vertex was created with
SourceAdd(node) ==
    /\ clock < MaxCopyCalls
    /\ ~HasKey(last.made, node.id)
    /\ LET out == AddNodeTool(file, Undef, <<node>>, clock)
       IN  /\ file' = out.file
           /\ last' = [op |-> "add_nodes", err |-> out.err,
                       made |-> Put(last.made, node.id, node.kind),
                       copies |-> last.copies]
    /\ graph' = NoGraph
    /\ clock' = clock + 1

\* link_nodes on the source
SourceLink(edges) ==
    /\ clock < MaxCopyCalls
    /\ HasKey(last.made, NodeM)
    /\ LET out == LinkNodesTool(file, Undef, edges, clock)
       IN  /\ file' = out.file
           /\ last' = [op |-> "link_nodes", err |-> out.err, made |-> last.made,
                       copies |-> last.copies]
    /\ graph' = NoGraph
    /\ clock' = clock + 1

\* copy_nodes
Copy(a, target) ==
    /\ clock < MaxCopyCalls
    /\ last.copies < MaxCopies
    /\ last.made # <<>>
    /\ LET tgt  == IF target = "new" THEN NoFile ELSE file
           args == IF target = "new" THEN a ELSE [a EXCEPT !.target_tab = StrV(NameB)]
           out  == CopyNodesTool(file, tgt, args, clock)
       IN  /\ file' = IF target = "new" THEN file ELSE out.file
           /\ graph' = IF out.g = NoGraph THEN NoGraph ELSE Compact(out.g)
           /\ last' = [op |-> "copy_nodes", err |-> out.err, made |-> last.made,
                       copies |-> last.copies + 1, args |-> args,
                       before |-> file, target |-> tgt, written |-> out.file, map |-> out.map]
    /\ clock' = clock + 1

NextCopy ==
    \/ \E node \in SourceNodes : SourceAdd(node)
    \/ \E edges \in SourceLinks : SourceLink(edges)
    \/ \E a \in CopyInputs, target \in CopyTargets : Copy(a, target)

SpecCopy == InitCopy /\ [][NextCopy]_vars

\* the style add_nodes gives a vertex of this kind
StyleOfKind(kind) == adjustStyleByKind(Kinds(KindOf(kind)).style, normalizeKind(kind), Undef)

\* the ID the copy of the vertex is to have
CopyId(id, a) ==
    IF HasKey(a.id_mapping, id) THEN Get(a.id_mapping, id).s
    ELSE IF a.id_prefix # Undef THEN a.id_prefix.s \o id
    ELSE id

\* the vertex id of the source page has a copy in the target graph with the
\* intended ID, the shifted position and the same kind, size and custom data
CopiedAs(src, tgt, id, a, kind) ==
    LET v == src.objs[getCell(src, id)]
        w == tgt.objs[getCell(tgt, CopyId(id, a))]
    IN  /\ getCell(tgt, CopyId(id, a)) # None
        /\ w.vertex
        /\ w.geom = Geom(v.geom.x + a.offset_x, v.geom.y + a.offset_y, v.geom.width, v.geom.height)
        /\ w.data = v.data
        /\ w.style = StyleOfKind(kind)

CopiedInto == last.op = "copy_nodes" /\ ~last.err

\* C11: copy_nodes into an empty target gives every copied vertex the ID of
\* the explicit mapping, else prefix + ID, else the ID itself, at the
\* position shifted by the offsets, with the kind, size and custom data the
\* vertex was created with.
C11_Original ==
    CopiedInto =>
        \A i \in 1..Len(last.args.node_ids) :
            CopiedAs(loadGraph(last.before, Undef).g, graph, last.args.node_ids[i], last.args,
                     Get(last.made, last.args.node_ids[i]))

\* the edges of the tree as pairs <<source ID, target ID>>, <<>> for no end
EdgePairs(g) ==
    {<<IF g.objs[o].source = None THEN <<>> ELSE g.objs[g.objs[o].source].id,
       IF g.objs[o].target = None THEN <<>> ELSE g.objs[g.objs[o].target].id>> :
        o \in {e \in 1..Len(g.objs) : g.objs[e].edge /\ InTree(g, e)}}

EdgeCount(g) == Cardinality({e \in 1..Len(g.objs) : g.objs[e].edge /\ InTree(g, e)})

\* the edges of the source page with both ends among the copied IDs
Inner(g, ids) == {e \in EdgePairs(g) : e[1] \in ids /\ e[2] \in ids}

CopiedIds == {last.args.node_ids[i] : i \in 1..Len(last.args.node_ids)}

\* the images of the source edges with both ends copied
Images(src) ==
    {<<CopyId(e[1], last.args), CopyId(e[2], last.args)>> : e \in Inner(src, CopiedIds)}

CopiedEdges == CopiedInto /\ last.args.copy_connected_edges

\* C24 as stated: copy_nodes with copy_connected_edges makes in the target
\* one edge for every source edge whose source and target are both copied,
\* from the copy of its source to the copy of its target, and no other edge.
C24_Original ==
    CopiedEdges =>
        LET src == loadGraph(last.before, Undef).g
        IN  /\ EdgePairs(graph) = Images(src)
            /\ EdgeCount(graph) = Cardinality(Inner(src, CopiedIds))

\* C24: copy_nodes with copy_connected_edges makes in the target one edge
\* for every unordered pair of copied vertices that a source edge joins,
\* from the copy of the source to the copy of the target of such an edge,
\* and no other edge; when no two source edges join the same pair these are
\* the images of the source edges with both ends copied.
C24_Edges ==
    CopiedEdges =>
        LET src == loadGraph(last.before, Undef).g
        IN  /\ EdgePairs(graph) \subseteq Images(src)
            /\ \A e \in Images(src) : e \in EdgePairs(graph) \/ <<e[2], e[1]>> \in EdgePairs(graph)
            /\ EdgeCount(graph) = Cardinality({{e[1], e[2]} : e \in Inner(src, CopiedIds)})
            /\ Cardinality(Inner(src, CopiedIds))
                  = Cardinality({{e[1], e[2]} : e \in Inner(src, CopiedIds)})
               => EdgePairs(graph) = Images(src)

\* the edges n -> m and m -> n of the drawn page, copied under a mapping for
\* n and a prefix: one edge in the target
C24_Witness ==
    /\ CopiedEdges
    /\ last.args.id_mapping # <<>>
    /\ last.args.id_prefix # Undef
    /\ Inner(loadGraph(last.before, Undef).g, CopiedIds) = {<<NodeN, NodeM>>, <<NodeM, NodeN>>}
    /\ EdgeCount(graph) = 1
    /\ EdgePairs(graph) \subseteq {<<NodeQ, PrefixP \o NodeM>>, <<PrefixP \o NodeM, NodeQ>>}

-----------------------------------------------------------------------------
(* The document store on its own: saveGraph calls on a file that starts    *)
(* out missing.  clock is Date.now(): between two calls it advances or      *)
(* stays within the same millisecond.                                        *)

MaxSaves == 3

NameLt == <<"<">>

NameEntity == <<"&", "l", "t", ";">>

\* tab as saveGraph takes it: absent, a plain name, names to escape
SaveTabs == {Undef, StrV(NameA), StrV(NameLt), StrV(NameEntity)}

\* the graphs saved: an empty one and one with a vertex
GraphOne == addNode(NewGraph, [NodeArgs EXCEPT !.id = NodeN, !.title = StrV(NodeN)]).g

SavedGraphs == {NewGraph, GraphOne}

InitStore ==
    /\ file = NoFile
    /\ graph = NoGraph
    /\ clock = 0
    /\ last = [op |-> "init", err |-> FALSE, saves |-> 0]

\* GraphFileManager.saveGraph(graph, filePath, tab)
StoreSave(g, tab, tick) ==
    /\ last.saves < MaxSaves
    /\ file' = saveGraph(file, g, tab, clock)
    /\ graph' = g
    /\ last' = [op |-> "save", err |-> FALSE, saves |-> last.saves + 1, tab |-> tab,
                before |-> file, now |-> clock]
    /\ clock' = clock + tick

NextStore == \E g \in SavedGraphs, tab \in SaveTabs, tick \in {0, 1} : StoreSave(g, tab, tick)

SpecStore == InitStore /\ [][NextStore]_vars

Pages(f) == parseDiagrams(f)

PageNames(f) == [i \in 1..Len(Pages(f)) |-> Pages(f)[i].name]

UniqueNames(f) ==
    /\ \A i, j \in 1..Len(Pages(f)) : Pages(f)[i].name = Pages(f)[j].name => i = j
    /\ \A i, j \in 1..Len(f.blocks) : f.blocks[i].name = f.blocks[j].name => i = j

\* the name a save goes to
SaveName ==
    IF Truthy(last.tab) THEN last.tab.s
    ELSE IF Len(Pages(last.before)) > 0 THEN Pages(last.before)[1].name ELSE PAGE_1

\* page at of the old document has the saved model, the others are as before
Overwrote(old, new, at) ==
    /\ Len(new) = Len(old)
    /\ \A i \in 1..Len(old) :
        new[i] = IF i = at THEN [old[i] EXCEPT !.mxGraphModelXML = toXML(graph)] ELSE old[i]

\* the new document is the old one and one more page with the saved model
Appended(old, new, name) ==
    /\ Len(new) = Len(old) + 1
    /\ SubSeq(new, 1, Len(old)) = old
    /\ new[Len(new)].name = name
    /\ new[Len(new)].mxGraphModelXML = toXML(graph)

\* C12: in a document made by saveGraph calls, with or without a tab name,
\* no two pages have the same name; a save under a name the document has
\* overwrites that page, a save under another name appends one page.
C12_UniqueNames ==
    /\ UniqueNames(file)
    /\ last.op = "save" =>
        LET at == FindIndex(Pages(last.before), SaveName)
        IN  IF at >= 0 THEN Overwrote(Pages(last.before), Pages(file), at + 1)
            ELSE Appended(Pages(last.before), Pages(file), SaveName)

\* a save over the second of two pages, whose name is written escaped
C12_Witness ==
    /\ last.op = "save"
    /\ last.tab = StrV(NameEntity)
    /\ PageNames(last.before) = <<NameLt, NameEntity>>
    /\ Pages(file)[2].mxGraphModelXML # Pages(last.before)[2].mxGraphModelXML
    /\ PageNames(file) = <<NameLt, NameEntity>>

\* C26: after any sequence of saveGraph calls, appends in quick succession
\* included, the pages of the document have pairwise distinct IDs.
C26_Original ==
    \A i, j \in 1..Len(Pages(file)) : Pages(file)[i].id = Pages(file)[j].id => i = j

-----------------------------------------------------------------------------
(* Loading: loadGraph with every kind of tab on documents with two pages,   *)
(* with a block that holds no model, with no page at all, and on what       *)
(* saveGraph makes of them.                                                  *)

MaxPages == 2

LoadDocuments ==
    Documents \cup {NoFile, [exists |-> TRUE, blocks |-> <<>>],
                    [exists |-> TRUE, blocks |-> <<Modelless(<<"p", "3">>, <<"Z">>)>>]}

\* tab as loadGraph takes it: absent, names the document has or not, the
\* empty name, and integers in and out of range
LoadTabs ==
    {Undef, StrV(<<>>), StrV(NameA), StrV(NameB), StrV(NameLt), StrV(NameEntity)}
    \cup {NumV(i) : i \in (0 - 1)..(MaxPages + 2)}

InitLoad ==
    /\ file \in LoadDocuments
    /\ graph = NoGraph
    /\ clock = 0
    /\ last = [op |-> "init", err |-> FALSE, saves |-> 0]

\* GraphFileManager.saveGraph(graph, filePath, tab)
LoadSave(g, tab) ==
    /\ last.saves < MaxPages
    /\ file' = saveGraph(file, g, tab, clock)
    /\ graph' = g
    /\ last' = [op |-> "save", err |-> FALSE, saves |-> last.saves + 1, tab |-> tab]
    /\ clock' = clock + 1

\* GraphFileManager.loadGraph(filePath, tab)
Load(tab) ==
    /\ LET out == loadGraph(file, tab)
       IN  /\ graph' = out.g
           /\ last' = [op |-> "load", err |-> out.err, saves |-> last.saves, tab |-> tab,
                       error |-> LoadError(file, tab)]
    /\ UNCHANGED <<file, clock>>

NextLoad ==
    \/ \E g \in SavedGraphs, tab \in {StrV(NameLt), StrV(NameEntity)} : LoadSave(g, tab)
    \/ \E tab \in LoadTabs : Load(tab)

SpecLoad == InitLoad /\ [][NextLoad]_vars

LoadedPage(page) == ~last.err /\ last.error = NoError /\ graph = fromXML(page.mxGraphModelXML)

LoadFailed(error) == last.err /\ graph = NoGraph /\ last.error = error

\* C13: loadGraph on a document returns the model of the first page when
\* tab is absent, of page i for an integer i from 0 below the page count,
\* of the page of that name for a name; any other integer fails as out of
\* range, an unknown name fails with the names the document has, and a
\* document in which no page is found fails.
C13_Load ==
    (last.op = "load" /\ file.exists) =>
        LET pages == Pages(file)
            tab   == last.tab
        IN  IF Len(pages) = 0 THEN LoadFailed([kind |-> "no diagrams"])
            ELSE IF tab = Undef THEN LoadedPage(pages[1])
            ELSE IF tab.t = "number"
                 THEN IF 0 <= tab.n /\ tab.n < Len(pages) THEN LoadedPage(pages[tab.n + 1])
                      ELSE LoadFailed([kind |-> "out of range", index |-> tab.n,
                                       last |-> Len(pages) - 1])
            ELSE IF \E i \in 1..Len(pages) : pages[i].name = tab.s
                 THEN \E i \in 1..Len(pages) : pages[i].name = tab.s /\ LoadedPage(pages[i])
            ELSE LoadFailed([kind |-> "not found", tab |-> tab.s, names |-> PageNames(file)])

\* page 1 loaded by index from a document whose second block holds no model
C13_Witness ==
    /\ last.op = "load"
    /\ last.tab = NumV(1)
    /\ ~last.err
    /\ Len(file.blocks) = 3
    /\ ~file.blocks[2].has
    /\ graph = fromXML(file.blocks[3].xml)

-----------------------------------------------------------------------------
(* Two tool calls on the same document path whose steps interleave.  Each   *)
(* is an add_nodes call: it loads a page and adds its vertex, then in       *)
(* saveGraph reads the file, and fs.writeFile opens the file for writing,   *)
(* which empties it, and then writes the text.  graph holds the graph of    *)
(* each call, last their positions and what they have read and built,       *)
(* clock is Date.now().                                                      *)

Callers == {1, 2}

RaceTabs == {Undef, StrV(NameB)}

\* the vertex a call adds
RaceNode(p) == IF p = 1 THEN DocNode(<<"x">>, Undef) ELSE DocNode(<<"y">>, Undef)

\* the file between the open and the write of fs.writeFile: no text in it
Truncated == [exists |-> TRUE, blocks |-> <<>>]

InitRace ==
    /\ file = [exists |-> TRUE, blocks |-> <<PageA, PageB>>]
    /\ graph = [p \in Callers |-> NoGraph]
    /\ clock = 0
    /\ last = [pc |-> [p \in Callers |-> "idle"], tab |-> [p \in Callers |-> Undef],
               text |-> [p \in Callers |-> NoFile], alone |-> [p \in Callers |-> FALSE],
               wrote |-> 0]

\* no call is between its load and its write
Quiet == \A q \in Callers : last.pc[q] \in {"idle", "done", "failed"}

\* loadGraph, then the batch on the graph in memory
Begin(p, tab) ==
    /\ last.pc[p] = "idle"
    /\ LET out == loadGraph(file, tab)
           r   == IF out.err THEN out ELSE addNode(out.g, RaceNode(p))
       IN  /\ graph' = [graph EXCEPT ![p] = IF r.err THEN NoGraph ELSE Compact(r.g)]
           /\ last' = [last EXCEPT !.pc[p] = IF r.err THEN "failed" ELSE "loaded",
                                   !.tab[p] = tab, !.alone[p] = Quiet]
    /\ clock' = clock + 1
    /\ UNCHANGED file

\* saveGraph up to the text to write: readFile, parseDiagrams, the new text
ReadExisting(p) ==
    /\ last.pc[p] = "loaded"
    /\ last' = [last EXCEPT !.pc[p] = "read",
                            !.text[p] = saveGraph(file, graph[p], SaveTab(last.tab[p]), clock)]
    /\ clock' = clock + 1
    /\ UNCHANGED <<file, graph>>

\* fs.writeFile: the file is opened for writing and is empty
OpenFile(p) ==
    /\ last.pc[p] = "read"
    /\ file' = Truncated
    /\ last' = [last EXCEPT !.pc[p] = "open"]
    /\ clock' = clock + 1
    /\ UNCHANGED graph

\* fs.writeFile: the text is written
WriteFile(p) ==
    /\ last.pc[p] = "open"
    /\ file' = last.text[p]
    /\ last' = [last EXCEPT !.pc[p] = "done", !.wrote = p]
    /\ clock' = clock + 1
    /\ UNCHANGED graph

NextRace ==
    \/ \E p \in Callers, tab \in RaceTabs : Begin(p, tab)
    \/ \E p \in Callers : ReadExisting(p)
    \/ \E p \in Callers : OpenFile(p)
    \/ \E p \in Callers : WriteFile(p)

SpecRace == InitRace /\ [][NextRace]_vars

BothDone == \A p \in Callers : last.pc[p] = "done"

\* each call began when the other was not between its load and its write
OneAfterTheOther == \A p \in Callers : last.alone[p]

\* the page the call named holds the vertex the call added
Reflects(p) ==
    LET out == loadGraph(file, last.tab[p])
    IN  ~out.err /\ getCell(out.g, RaceNode(p).id) # None

\* C16: of two load-mutate-save cycles on one document path that interleave,
\* the document after both is the whole document the last write produced,
\* and at no point does the file hold a partly written document; when one
\* cycle completes before the other begins, the document has the changes of
\* both.
C16_Original ==
    /\ BothDone => file = last.text[last.wrote]
    /\ file # Truncated
    /\ (BothDone /\ OneAfterTheOther) => \A p \in Callers : Reflects(p)

-----------------------------------------------------------------------------
(* Edits: addNode of the vertex n in every kind, then editNode calls on the *)
(* graph in memory.  clock counts the editNode calls.                        *)

MaxEdits == 2

OtherData == ObjV(<<Entry(<<"owner">>, StrV(<<"bob">>)), Entry(<<"team">>, StrV(<<"x">>))>>)

\* the vertex n of every kind, with and without custom data, the rounded
\* rectangle also with a corner radius
EditNodes ==
    {[NodeArgs EXCEPT !.id = NodeN, !.title = StrV(NodeN), !.kind = StrV(k), !.data = d] :
        k \in KindNames, d \in {Undef, SomeData}}
    \cup {[NodeArgs EXCEPT !.id = NodeN, !.title = StrV(NodeN),
                           !.kind = StrV(KIND_ROUNDED_RECTANGLE), !.corner_radius = NumV(2)]}

\* editNode arguments: the vertex n or an ID the graph does not hold, with
\* and without a kind, a corner radius and custom data
EditInputs ==
    {[NodeArgs EXCEPT !.id = id, !.kind = k, !.corner_radius = cr, !.data = d] :
        id \in {NodeN, <<"z">>},
        k \in {Undef, StrV(KIND_ROUNDED_RECTANGLE), StrV(<<"Ellipse">>)},
        cr \in {Undef, NumV(1), NumV(MaxRadius)},
        d \in {Undef, Null, SomeData, OtherData}}

InitEdit ==
    /\ graph = NewGraph
    /\ file = NoFile
    /\ clock = 0
    /\ last = [op |-> "init", err |-> FALSE]

EditAdd(a) ==
    /\ a.id \notin DOMAIN graph.dict
    /\ LET r == addNode(graph, a)
       IN  /\ graph' = Compact(r.g)
           /\ last' = [op |-> "addNode", args |-> a, err |-> r.err, before |-> graph]
    /\ UNCHANGED <<file, clock>>

Edit(a) ==
    /\ clock < MaxEdits
    /\ LET r == editNode(graph, a)
       IN  /\ graph' = Compact(r.g)
           /\ last' = [op |-> "editNode", args |-> a, err |-> r.err, before |-> graph]
    /\ clock' = clock + 1
    /\ UNCHANGED file

NextEdit ==
    \/ \E a \in EditNodes : EditAdd(a)
    \/ \E a \in EditInputs : Edit(a)

SpecEdit == InitEdit /\ [][NextEdit]_vars

\* the style of the vertex under the ID, as a mapping
StyleOf(g, id) == parseStyle(g.objs[getCell(g, id)].style)

\* the vertex is a rounded rectangle: its style has rounded and the absolute
\* arc size flag
IsRounded(g, id) ==
    /\ getCell(g, id) # None
    /\ Get(StyleOf(g, id), <<"rounded">>) = StrV(<<"1">>)
    /\ Get(StyleOf(g, id), PROP_ABSOLUTE_ARC_SIZE) = StrV(<<"1">>)

Edited == last.op = "editNode" /\ ~last.err

\* C22: editNode with a corner radius r >= 1 and no kind, on a vertex that is
\* a rounded rectangle, leaves the style with absoluteArcSize = 1 and
\* arcSize = 2r.
C22_Original ==
    (/\ Edited
     /\ IsRounded(last.before, last.args.id)
     /\ last.args.kind = Undef
     /\ last.args.corner_radius # Undef) =>
        /\ Get(StyleOf(graph, last.args.id), PROP_ABSOLUTE_ARC_SIZE) = StrV(<<"1">>)
        /\ Get(StyleOf(graph, last.args.id), PROP_ARC_SIZE)
             = StrV(Dec(2 * last.args.corner_radius.n))

\* the custom data of the vertex under the ID, as a mapping; none is <<>>
DataOf(g, id) == CellData(g, getCell(g, id))

Keys(m) == {m[i].k : i \in 1..Len(m)}

\* C23: editNode with data null removes the custom data of the vertex; with
\* a mapping the data becomes the old data and the mapping, union of the
\* keys and the mapping's value for a key both have; with data undefined
\* the data stays.  editNode on an ID the graph does not hold throws and
\* changes nothing.
C23_Data ==
    last.op = "editNode" =>
        LET a  == last.args
            id == a.id
        IN  IF getCell(last.before, id) = None THEN last.err /\ graph = last.before
            ELSE /\ ~last.err
                 /\ a.data = Null => graph.objs[getCell(graph, id)].data = Undef
                 /\ a.data = Undef =>
                        graph.objs[getCell(graph, id)].data
                            = last.before.objs[getCell(last.before, id)].data
                 /\ a.data.t = "object" =>
                        /\ Keys(DataOf(graph, id))
                             = Keys(DataOf(last.before, id)) \cup Keys(a.data.m)
                        /\ \A k \in Keys(DataOf(graph, id)) :
                             Get(DataOf(graph, id), k)
                                = IF k \in Keys(a.data.m) THEN Get(a.data.m, k)
                                  ELSE Get(DataOf(last.before, id), k)

\* {owner: bob, team: x} merged into {owner: ann}
C23_Witness ==
    /\ Edited
    /\ last.args.data = OtherData
    /\ DataOf(last.before, NodeN) = SomeData.m
    /\ Get(DataOf(graph, NodeN), <<"owner">>) = StrV(<<"bob">>)
    /\ Get(DataOf(graph, NodeN), <<"team">>) = StrV(<<"x">>)

\* C30: a vertex that addNode created with a kind of the catalog and no
\* style of its own is reported by getNodeInfo with that kind.
C30_Original ==
    (last.op = "addNode" /\ ~last.err /\ last.args.kind.s \in KindNames) =>
        /\ getNodeInfo(graph, last.args.id).found
        /\ getNodeInfo(graph, last.args.id).kind = last.args.kind.s

-----------------------------------------------------------------------------
(***************************************************************************)
(* Removal: removeNodes on a page with vertices, a table and edges.  last   *)
(* holds the call and the graph it was made on; clock counts the calls.     *)
(***************************************************************************)

MaxRemoveOps == 5

NodeA == <<"a">>

NodeB == <<"b">>

CellT == DataId(T, 0, 0)

NoSuchId == <<"z">>

RemoveVertexIds == {NodeA, NodeB}

RemoveLinks == {<<NodeA, NodeB>>, <<NodeB, NodeA>>, <<NodeA, CellT>>, <<NodeB, T>>}

RemoveTable == [TableArgs EXCEPT !.id = T, !.headers = <<HeaderH>>, !.rows = <<<<StrV(<<"v">>)>>>>]

RemoveInputs ==
    {<<NodeA>>, <<NodeB>>, <<T>>, <<CellT>>, <<NodeA, NodeB>>, <<NodeA, NodeA>>, <<NoSuchId>>,
     <<NoSuchId, NodeA>>, <<idDirect(NodeA, NodeB)>>, <<NodeA, T>>}

InitRemove ==
    /\ graph = NewGraph
    /\ file = NoFile
    /\ clock = 0
    /\ last = [op |-> "init", err |-> FALSE]

RemoveAdd(id) ==
    /\ clock < MaxRemoveOps
    /\ id \notin DOMAIN graph.dict
    /\ LET r == addNode(graph, [NodeArgs EXCEPT !.id = id, !.title = StrV(id)])
       IN  /\ graph' = Compact(r.g)
           /\ last' = [op |-> "addNode", err |-> r.err]
    /\ clock' = clock + 1
    /\ UNCHANGED file

RemoveAddTable ==
    /\ clock < MaxRemoveOps
    /\ T \notin DOMAIN graph.dict
    /\ LET r == addTable(graph, RemoveTable)
       IN  /\ graph' = Compact(r.g)
           /\ last' = [op |-> "addTable", err |-> r.err]
    /\ clock' = clock + 1
    /\ UNCHANGED file

RemoveLink(from, to) ==
    /\ clock < MaxRemoveOps
    /\ from \in DOMAIN graph.dict
    /\ to \in DOMAIN graph.dict
    /\ LET r == linkNodes(graph, [LinkArgs EXCEPT !.from = from, !.to = to])
       IN  /\ graph' = Compact(r.g)
           /\ last' = [op |-> "linkNodes", err |-> r.err]
    /\ clock' = clock + 1
    /\ UNCHANGED file

Remove(ids) ==
    /\ clock < MaxRemoveOps
    /\ LET r == removeNodes(graph, ids)
       IN  /\ graph' = Compact(r.g)
           /\ last' = [op |-> "removeNodes", err |-> r.err, ids |-> ids, before |-> graph]
    /\ clock' = clock + 1
    /\ UNCHANGED file

NextRemove ==
    \/ \E id \in RemoveVertexIds : RemoveAdd(id)
    \/ RemoveAddTable
    \/ \E l \in RemoveLinks : RemoveLink(l[1], l[2])
    \/ \E ids \in RemoveInputs : Remove(ids)

SpecRemove == InitRemove /\ [][NextRemove]_vars

\* the cells removeNodes(ids) was given and everything below them in the tree
GivenTrees(g, ids) ==
    UNION {Descendants(g, getCell(g, ids[i])) : i \in {j \in 1..Len(ids) : ids[j] \in DOMAIN g.dict}}

\* the edges of the page that start or end at one of the cells
EdgesOf(g, S) ==
    {e \in 1..Len(g.objs) : /\ g.objs[e].edge
                            /\ e \in {g.dict[k] : k \in DOMAIN g.dict}
                            /\ (g.objs[e].source \in S \/ g.objs[e].target \in S)}

IdsOf(g, S) == {g.objs[o].id : o \in S}

Removed == last.op = "removeNodes"

\* a cell of the page as a caller sees it: its fields, with ids for references
Seen(g, k) ==
    LET c == g.objs[g.dict[k]]
        Ref(o) == IF o = None THEN <<>> ELSE g.objs[o].id
    IN  [id |-> c.id, value |-> c.value, style |-> c.style, vertex |-> c.vertex, edge |-> c.edge,
         parent |-> Ref(c.parent), source |-> Ref(c.source), target |-> Ref(c.target)]

-----------------------------------------------------------------------------
(* Two tables: the table t and another table on one graph.  last holds the  *)
(* call, the table it was about and the graph it was made on; clock counts  *)
(* the calls.                                                                *)

MaxTwoOps == 4

\* the other table's ID: unrelated to t, or one that starts like t's cells
TableU == <<"u">>

TableTR == T \o <<"_", "r">>

TwoTables == {T, TableU, TableTR}

TwoCreateInputs ==
    {[TableArgs EXCEPT !.id = id, !.headers = <<HeaderH>>,
                       !.rows = [i \in 1..nr |-> <<IF id = T THEN StrV(<<"v">>) ELSE StrV(<<"w">>)>>]] :
        id \in TwoTables, nr \in 0..1}

InitTwo ==
    /\ graph = NewGraph
    /\ file = NoFile
    /\ clock = 0
    /\ last = [op |-> "init", err |-> FALSE]

TwoOp(op, id, r) ==
    /\ clock < MaxTwoOps
    /\ graph' = Compact(r.g)
    /\ last' = [op |-> op, table |-> id, err |-> r.err, before |-> graph]
    /\ clock' = clock + 1
    /\ UNCHANGED file

TwoCreate(a) ==
    /\ a.id \notin DOMAIN graph.dict
    /\ TwoOp("addTable", a.id, addTable(graph, a))

TwoAddRow(id) ==
    /\ id \in DOMAIN graph.dict
    /\ Len(getTableInfo(graph, id).rows) < MaxRows
    /\ TwoOp("addTableRow", id,
             addTableRow(graph, [tableId |-> id, values |-> <<StrV(<<"x">>)>>, position |-> NumV(0 - 1)]))

TwoUpdate(id) ==
    /\ id \in DOMAIN graph.dict
    /\ TwoOp("updateTableCell", id,
             updateTableCell(graph, [tableId |-> id, row |-> 0, column |-> NumV(0), value |-> StrV(<<"u">>)]))

TwoRemove(id) ==
    /\ id \in DOMAIN graph.dict
    /\ TwoOp("removeNodes", id, removeNodes(graph, <<id>>))

NextTwo ==
    \/ \E a \in TwoCreateInputs : TwoCreate(a)
    \/ \E id \in TwoTables : TwoAddRow(id)
    \/ \E id \in TwoTables : TwoUpdate(id)
    \/ \E id \in TwoTables : TwoRemove(id)

SpecTwo == InitTwo /\ [][NextTwo]_vars

\* the last call was about a table other than t, on a graph that holds t
OtherTable == last.op # "init" /\ last.table # T /\ ~getTableInfo(last.before, T).err

\* C29: a call that creates, edits or removes a table other than t leaves
\* the columns and rows getTableInfo(t) returns as they were.
C29_Original ==
    OtherTable =>
        /\ ~getTableInfo(graph, T).err
        /\ getTableInfo(graph, T).columns = getTableInfo(last.before, T).columns
        /\ getTableInfo(graph, T).rows = getTableInfo(last.before, T).rows

====
